---- MODULE Spec2Model ----
(***************************************************************************)
(* cli-gateway: the backend execution and streaming-translation engine.    *)
(*                                                                         *)
(* One request of one backend adapter (codex, gemini, claude-code): the    *)
(* subprocess, the line parser, the output bridge (chunkQueue, done,       *)
(* waitResolve), the Codex retry decorator and the consumer that pulls the *)
(* chunk sequence.                                                         *)
(*                                                                         *)
(* Scheduling is Node's: a data / close / abort / timer callback runs to   *)
(* completion, and the promise continuations it made runnable (the         *)
(* consumer's for-await loop, whose body is synchronous) run before the    *)
(* next callback.  pc = "run" is a consumer entering next(), pc = "woken"   *)
(* one whose stored resolver has been called; callbacks are enabled only   *)
(* while the consumer is suspended or has ended.                           *)
(*                                                                         *)
(* Subprocess output is a sequence of characters.  A JSON event is two     *)
(* characters, a head naming the event and the closing brace, so that a    *)
(* data callback can end inside a line and a truncated line fails to       *)
(* parse.                                                                  *)
(***************************************************************************)
EXTENDS Integers, Sequences, FiniteSets, TLC

VARIABLES
    backend,            \* which adapter serves the request
    hasSystemPrompt,    \* req.systemPrompt is set (gemini's side-channel file)
    stdoutAtStart,      \* stdout the subprocess had written when the behaviour starts
    reqTools,           \* req.tools
    reqIsNew,           \* req.isNewConversation
    reqModel,           \* req.model, "" when none
    gatewayEnv,         \* process.env of the gateway
    reqSessionId,       \* req.sessionId
    otherMapping,       \* sessionMapping entry of the other session id
    turns,              \* turns run before this one
    tmpFiles,           \* the temporary directory: file name -> content, NoFile when absent
    inflight,           \* gemini requests in flight at once, per request
    argv,               \* argument vector of the subprocess
    childEnv,           \* environment of the subprocess
    lineBuf,            \* let lineBuf
    chunkQueue,         \* const chunkQueue: ChatChunk[]
    done,               \* let done
    waitResolve,        \* let waitResolve (TRUE: a resolver is stored)
    killed,             \* let killed
    systemPromptFile,   \* gemini: let systemPromptFile (TRUE: a path is stored)
    fileOnDisk,         \* gemini: the temporary file exists
    sessionMapping,     \* module-level sessionMapping, the entry of req.sessionId
    lineNo,             \* complete stdout lines consumed so far
    attempt,            \* codex retry iterator: let attempt
    gotContent,         \* codex retry iterator: let gotContent
    inner,              \* a bridge exists (codex: inner # null)
    aborted,            \* req.signal.aborted
    nSpawned,           \* subprocesses spawned by this request
    childState,         \* per subprocess: "none" | "running" | "terminating" | "closed"
    procRest,           \* stdout written by the current subprocess, not yet delivered
    procLines,          \* lines the current subprocess has written
    procFinal,          \* its last line was written without a newline
    exitCode,           \* exit code the latest close handler received, "none" before
    pc,                 \* consumer: "run" | "woken" | "wait" | "backoff" | "ended"
    delivered,          \* chunks the consumer of handle.output received
    enqueuedLog,        \* chunks enqueued into the current bridge
    bridgeOut,          \* chunks the current bridge's next() returned
    deliveredAtCancel,  \* Len(delivered) at the first abort or kill(), -1 before
    deliveredAtAbort,   \* Len(delivered) when the abort signal fired, -1 before
    \* session-map.ts
    sessions,           \* the sessions table: session_id -> row, or NoRow
    now,                \* Date.now()
    ticks,              \* clock advances so far
    lastOp,             \* the latest call: "none" | "tick" | "track" | "prune" | "isNew" | "resolve"
    lastId,             \* session id of the latest trackSession / isNewConversation
    lastIsNew,          \* what the latest isNewConversation returned
    lastDeleted,        \* ids the latest pruneExpiredSessions deleted
    lastCount,          \* messageCount of the latest call, if it was trackSession
    resolveArgs,        \* arguments of the latest resolveSessionId
    resolveResult,      \* what it returned
    \* server.ts, handleChatCompletions
    srvChunks,          \* handle.output: the chunks not yet consumed
    srvConsumed,        \* the chunks the for-await loop has consumed
    srvStream,          \* body.stream
    srvPc,              \* "idle" | "loop" | "ended"
    srvBody,            \* the body of the request being handled
    srvRan,             \* backend.run has been called for the request
    srvSession,         \* sessionId of the request
    srvIsNew,           \* isNewConversation passed to backend.run
    doneAt,             \* per session id, when its last done was consumed
    resWritten,         \* what res.write() has written, in order
    fullContent,        \* the non-streaming accumulator
    resStatus,          \* status of the JSON response, 0 before it is sent
    resBody             \* body of the JSON response

bridgeVars == <<lineBuf, chunkQueue, done, waitResolve, killed, systemPromptFile,
                fileOnDisk, sessionMapping, lineNo>>
retryVars == <<attempt, gotContent, inner>>
procVars == <<nSpawned, childState, procRest, procLines, procFinal, exitCode>>
ghostVars == <<enqueuedLog, bridgeOut, deliveredAtCancel, deliveredAtAbort>>
storeVars == <<sessions, now, ticks, lastOp, lastId, lastIsNew, lastDeleted, lastCount,
               resolveArgs, resolveResult>>
\* What no step of a run changes: the request's inputs, and the session store,
\* which only the HTTP handler touches.
\* Several gemini requests at once and the temporary directory they share.
concVars == <<tmpFiles, inflight>>
requestVars == <<backend, hasSystemPrompt, stdoutAtStart, reqTools, reqIsNew,
                 reqModel, gatewayEnv, reqSessionId, otherMapping, turns, concVars>>
launchVars == <<argv, childEnv>>
callVars == <<srvBody, srvRan, srvSession, srvIsNew>>
serverVars == <<srvChunks, srvConsumed, srvStream, srvPc, resWritten,
                fullContent, resStatus, resBody, callVars, doneAt>>
fixedVars == <<requestVars, storeVars, serverVars>>
runVars == <<requestVars, launchVars, bridgeVars, retryVars, aborted, procVars,
             pc, delivered, ghostVars>>

vars == <<runVars, storeVars, serverVars>>

----------------------------------------------------------------------------
(* Bounds *)

MaxLines == 2

\* Clock advances in a behaviour of the session store.
MaxTicks == 2

\* Length of the chunk sequence handed to the HTTP handler.
MaxChunks == 3

\* Lines of a stdout stream that is parsed as a whole.
MaxStreamLines == 3

----------------------------------------------------------------------------
(* Characters and lines of subprocess output *)

NL == "\n"
SP == " "
ESC == "ESC"
CSI == "[0m"
BRACE == "}"

\* Event heads: assistant text, assistant message with empty text, successful
\* turn/result, failed turn/result or error event, thread.started / init.
EventHeads == {"c", "z", "d", "e", "s"}

\* A second thread.started / init event, which carries another native id.
StartedHeads == {"s", "t"}

ParsedHeads == EventHeads \cup StartedHeads

\* The native id a started event carries.
NativeIdOf(h) == IF h = "s" THEN "native" ELSE "native2"

Backends == {"codex", "gemini", "claude-code"}

JsonLine(h) == <<h, BRACE>>

LineTexts(b) ==
    {JsonLine(h) : h \in EventHeads}
        \cup {<<"c">>, <<SP>>}
        \cup (IF b = "claude-code" THEN {<<ESC, CSI, "c", BRACE>>} ELSE {})

ExitCodes == {"0", "1"}

\* Exit codes a close can report: the subprocess's own, or none when a signal
\* killed it.
CloseCodes == ExitCodes \cup {"null"}

----------------------------------------------------------------------------
(* String helpers *)

RECURSIVE SplitNL(_)
SplitNL(s) ==
    IF \A i \in 1..Len(s) : s[i] # NL THEN <<s>>
    ELSE LET i == CHOOSE i \in 1..Len(s) :
                      s[i] = NL /\ \A j \in 1..(i - 1) : s[j] # NL
         IN <<SubSeq(s, 1, i - 1)>> \o SplitNL(SubSeq(s, i + 1, Len(s)))

RECURSIVE TrimLeft(_)
TrimLeft(s) == IF s # <<>> /\ Head(s) = SP THEN TrimLeft(Tail(s)) ELSE s

RECURSIVE TrimRight(_)
TrimRight(s) ==
    IF s # <<>> /\ s[Len(s)] = SP THEN TrimRight(SubSeq(s, 1, Len(s) - 1)) ELSE s

Trim(s) == TrimRight(TrimLeft(s))

RECURSIVE stripAnsi(_)
stripAnsi(s) ==
    IF s = <<>> THEN <<>>
    ELSE IF Len(s) >= 2 /\ s[1] = ESC /\ s[2] = CSI
         THEN stripAnsi(SubSeq(s, 3, Len(s)))
         ELSE <<Head(s)>> \o stripAnsi(Tail(s))

\* Mutant: a line that lacks its closing brace is parsed all the same.
ParseEvent_Lenient(t) ==
    IF t # <<>> /\ t[1] \in ParsedHeads THEN t[1] ELSE "invalid"

\* JSON.parse followed by the read of event.type: the head, or "invalid".
ParseEvent(t) ==
    IF Len(t) = 2 /\ t[2] = BRACE /\ t[1] \in ParsedHeads THEN t[1] ELSE "invalid"

----------------------------------------------------------------------------
(* Chunks *)

ContentChunk(text, n) ==
    [type |-> "content", text |-> text, error |-> "", attempts |-> 0, line |-> n]
DoneChunk(n) ==
    [type |-> "done", text |-> "", error |-> "", attempts |-> 0, line |-> n]
\* `CLI exited with code ${exitCode}`
ExitMessage(code) == IF code = "null" THEN "exit null" ELSE "exit 1"

ErrorChunk(msg, n) ==
    [type |-> "error", text |-> "", error |-> msg, attempts |-> 0, line |-> n]

IsTerminal(c) == c.type \in {"done", "error"}

\* processLine: the chunks a complete, trimmed, non-empty line enqueues.
processLine(b, t, n) ==
    LET h == ParseEvent(t) IN
    CASE h = "c" -> <<ContentChunk("T", n)>>
      [] h = "z" -> IF b = "claude-code" THEN <<ContentChunk("", n)>> ELSE <<>>
      [] h = "d" -> <<DoneChunk(n)>>
      [] h = "e" -> <<ErrorChunk("tool", n)>>
      [] OTHER -> <<>>

\* processLine's side effect on sessionMapping (thread.started / init).
\* Mutant: an id already cached is kept.
MappingAfterLine_KeepsFirst(b, t, m) ==
    IF b # "claude-code" /\ ParseEvent(t) \in StartedHeads /\ m = "none"
    THEN NativeIdOf(ParseEvent(t)) ELSE m

MappingAfterLine(b, t, m) ==
    IF b # "claude-code" /\ ParseEvent(t) \in StartedHeads
    THEN NativeIdOf(ParseEvent(t)) ELSE m

\* The close / exit handler's treatment of a non-empty remainder.
processRemainder(b, t, n) ==
    IF b = "claude-code"
    THEN (IF ParseEvent(t) = "d" THEN <<DoneChunk(n)>> ELSE <<>>)
    ELSE processLine(b, t, n)

MappingAfterRemainder(b, t, m) ==
    IF b = "claude-code" THEN m ELSE MappingAfterLine(b, t, m)

\* The for-loop over the complete lines of one data callback.
RECURSIVE ChunksOfLines(_, _, _)
ChunksOfLines(b, lines, n) ==
    IF lines = <<>> THEN <<>>
    ELSE LET t == Trim(Head(lines))
         IN (IF t # <<>> THEN processLine(b, t, n + 1) ELSE <<>>)
                \o ChunksOfLines(b, Tail(lines), n + 1)

RECURSIVE MappingAfterLines(_, _, _)
MappingAfterLines(b, lines, m) ==
    IF lines = <<>> THEN m
    ELSE LET t == Trim(Head(lines))
         IN MappingAfterLines(b, Tail(lines),
                              IF t # <<>> THEN MappingAfterLine(b, t, m) ELSE m)

\* Mutant: the close handler never reports the exit code.
CloseEnqueuesError_Never(b, code, k) == FALSE

\* The close handler enqueues "CLI exited with code ..." for this exit code.
CloseEnqueuesError(b, code, k) == code # "0" /\ (b = "codex" \/ ~k)

\* Mutant: onAbort forgets to call finish().
OnAbortFinishes_Never(b) == FALSE

\* onAbort calls finish() on the bridge (gemini, claude-code); the codex
\* listener only sets killed and signals the child.
OnAbortFinishes(b) == b # "codex"

----------------------------------------------------------------------------
(* Launching the subprocess: environment and argument vector *)

\* Names of environment variables: one of the global allow-list, one auth key
\* of each backend, a secret of the gateway, and gemini's side-channel variable.
EnvNames ==
    {"PATH", "OPENAI_API_KEY", "GEMINI_API_KEY", "ANTHROPIC_API_KEY",
     "AWS_SECRET_ACCESS_KEY", "GEMINI_SYSTEM_MD"}

ALLOWED_KEYS == {"PATH"}

BACKEND_KEYS(backendId) ==
    CASE backendId = "claude-code" -> {"ANTHROPIC_API_KEY"}
      [] backendId = "codex" -> {"OPENAI_API_KEY"}
      [] backendId = "gemini" -> {"GEMINI_API_KEY"}
      [] OTHER -> {}

\* A variable that is not set.
Unset == "unset"

\* The environments of the gateway the model draws from.
GatewayEnvs ==
    {e \in [EnvNames -> {Unset, "v1", "v2"}] :
        /\ e["PATH"] # Unset
        /\ \A k \in EnvNames \ {"PATH", "AWS_SECRET_ACCESS_KEY"} : e[k] # "v2"}

DefaultEnv == [k \in EnvNames |-> IF k = "PATH" THEN "v1" ELSE Unset]

NoEnv == [k \in EnvNames |-> Unset]

\* Mutant: the auth keys of every backend pass.
cleanEnv_AllKeys(backendId, env) ==
    [k \in EnvNames |->
        IF k \in ALLOWED_KEYS \/ k \in UNION {BACKEND_KEYS(b) : b \in Backends}
        THEN env[k] ELSE Unset]

cleanEnv(backendId, env) ==
    [k \in EnvNames |->
        IF k \in ALLOWED_KEYS \/ k \in BACKEND_KEYS(backendId) THEN env[k] ELSE Unset]

\* Path of gemini's system-prompt file.
SYSTEM_MD_FILE == "gemini-sysprompt.md"

\* The environment the subprocess is spawned with: cleanEnv, and for gemini
\* with a system prompt GEMINI_SYSTEM_MD set to the side-channel file.
LaunchEnv(b, env, sys) ==
    IF b = "gemini" /\ sys
    THEN [cleanEnv(b, env) EXCEPT !["GEMINI_SYSTEM_MD"] = SYSTEM_MD_FILE]
    ELSE cleanEnv(b, env)

\* args.push(...) when the condition holds
PushIf(cond, toks) == IF cond THEN toks ELSE <<>>

codexArgs(isNew, mapping, model, sys, tools) ==
    LET isResume == ~isNew /\ mapping # "none" IN
    (IF isResume THEN <<"exec", "resume">> ELSE <<"exec">>)
        \o <<"--json", "--color", "never", "--skip-git-repo-check">>
        \o PushIf(model # "", <<"-m", model>>)
        \o PushIf(sys, <<"-c", "developer_instructions">>)
        \o (IF tools THEN <<"--dangerously-bypass-approvals-and-sandbox">>
            ELSE <<"--sandbox", "read-only">>)
        \o <<"-C", "CWD">>
        \o (IF isResume THEN <<"--", mapping, "PROMPT">> ELSE <<"--", "PROMPT">>)

geminiArgs(isNew, mapping, model, sys, tools) ==
    LET isResume == ~isNew /\ mapping # "none" IN
    <<"-p", "PROMPT", "--output-format", "stream-json">>
        \o PushIf(model # "", <<"--model", model>>)
        \o PushIf(isResume, <<"--resume", mapping>>)
        \o PushIf(tools, <<"--yolo">>)

claudeArgs(isNew, mapping, model, sys, tools) ==
    <<"-p", "--verbose", "--output-format", "stream-json", "--model", model>>
        \o PushIf(sys, <<"--system-prompt", "SYSTEM">>)
        \o (IF ~tools THEN <<"--tools", "">> ELSE <<"--dangerously-skip-permissions">>)
        \o <<"--", "PROMPT">>

BuildArgs(b, isNew, mapping, model, sys, tools) ==
    CASE b = "codex" -> codexArgs(isNew, mapping, model, sys, tools)
      [] b = "gemini" -> geminiArgs(isNew, mapping, model, sys, tools)
      [] b = "claude-code" -> claudeArgs(isNew, mapping, model, sys, tools)

----------------------------------------------------------------------------
(* Codex retry decorator *)

MAX_RETRIES == 2

MaxAttempts == MAX_RETRIES + 1

\* Subprocess slots of the model: one more than the decorator should ever use.
MaxChildren == MaxAttempts + 1

\* Mutant: the decorator gives up one retry early.
RetryEligible_OneShort(c, got, k, att) ==
    c.type = "error" /\ ~got /\ ~k /\ att < MAX_RETRIES - 1

\* Mutant: the retry test forgets gotContent.
RetryEligible_IgnoresContent(c, got, k, att) ==
    c.type = "error" /\ ~k /\ att < MAX_RETRIES

\* Mutant: the decorator allows one retry more.
RetryEligible_OneMore(c, got, k, att) ==
    c.type = "error" /\ ~got /\ ~k /\ att <= MAX_RETRIES

\* Mutant: the retry test forgets killed.
RetryEligible_IgnoresKill(c, got, k, att) ==
    c.type = "error" /\ ~got /\ att < MAX_RETRIES

RetryEligible(c, got, k, att) ==
    c.type = "error" /\ ~got /\ ~k /\ att < MAX_RETRIES

\* Mutant: the annotation counts the retries, not the attempts.
Annotate_CountsRetries(c, att) ==
    IF c.type = "error" /\ att > 0 THEN [c EXCEPT !.attempts = att] ELSE c

Annotate(c, att) ==
    IF c.type = "error" /\ att > 0 THEN [c EXCEPT !.attempts = att + 1] ELSE c

----------------------------------------------------------------------------
(* Initial state *)

(* session-map.ts: the session store and the session id *)

SESSION_TTL_MS == 24 * 60 * 60 * 1000

SessionIds == {"s1", "s2"}
BackendIds == {"codex", "gemini"}
MessageCounts == {1, 3}

\* A clock advance: a millisecond, or a whole TTL.
TickSteps == {1, SESSION_TTL_MS}

NoRow == [backend_id |-> "none"]

\* A value that was not supplied (JavaScript undefined).  Strings are
\* sequences of characters, so this is no string.
undefined == <<"undefined">>

StringContent(t) == [kind |-> "string", text |-> t]
PartsContent(ps) == [kind |-> "parts", parts |-> ps]
NoContent == [kind |-> "undefined"]
TextPart(t) == [type |-> "text", text |-> t]
ImagePart == [type |-> "image_url", text |-> undefined]

\* Arguments of resolveSessionId: no explicit id with every prompt and
\* content, an empty explicit id, an explicit id with and without the rest,
\* and no explicit id with a prompt that ends in "::" or a content that
\* begins with it.
ResolveInputs ==
    {<<undefined, p, c>> :
        p \in {undefined, <<>>, <<"p">>},
        c \in {NoContent, StringContent(<<"u">>),
               PartsContent(<<TextPart(<<"u">>), ImagePart, TextPart(<<"v">>)>>)}}
    \cup {<< <<>>, <<"p">>, StringContent(<<"u">>) >>}
    \cup {<<undefined, <<"p", ":", ":">>, StringContent(<<"u">>)>>,
          <<undefined, <<"p">>, StringContent(<<":", ":", "u">>)>>}
    \cup {<< <<"x">>, p, c >> :
            p \in {undefined, <<"p">>}, c \in {NoContent, StringContent(<<"u">>)}}

\* stmtUpsert: insert the row, or on conflict update last_used and msg_count.
\* Mutant: ON CONFLICT leaves last_used as it was.
stmtUpsert_KeepsLastUsed(tbl, id, backendId, createdAt, lastUsed, msgCount) ==
    [tbl EXCEPT ![id] =
        IF tbl[id] = NoRow
        THEN [backend_id |-> backendId, created_at |-> createdAt,
              last_used |-> lastUsed, msg_count |-> msgCount]
        ELSE [tbl[id] EXCEPT !.msg_count = msgCount]]

\* Mutant: INSERT OR REPLACE, the row is written anew on conflict.
stmtUpsert_Replaces(tbl, id, backendId, createdAt, lastUsed, msgCount) ==
    [tbl EXCEPT ![id] =
        [backend_id |-> backendId, created_at |-> createdAt,
         last_used |-> lastUsed, msg_count |-> msgCount]]

stmtUpsert(tbl, id, backendId, createdAt, lastUsed, msgCount) ==
    [tbl EXCEPT ![id] =
        IF tbl[id] = NoRow
        THEN [backend_id |-> backendId, created_at |-> createdAt,
              last_used |-> lastUsed, msg_count |-> msgCount]
        ELSE [tbl[id] EXCEPT !.last_used = lastUsed, !.msg_count = msgCount]]

\* Mutant: a row counts as live up to and including the cutoff.
LiveAt_Inclusive(row, cutoff) == row.last_used >= cutoff

\* WHERE last_used > ? of stmtExists
LiveAt(row, cutoff) == row.last_used > cutoff

\* stmtExists.get(id, cutoff): is there a row?
stmtExists(tbl, id, cutoff) == tbl[id] # NoRow /\ LiveAt(tbl[id], cutoff)

\* Mutant: rows at the cutoff survive the sweep.
ExpiredAt_Strict(row, cutoff) == row.last_used < cutoff

\* WHERE last_used <= ? of stmtPrune
ExpiredAt(row, cutoff) == row.last_used <= cutoff

\* stmtPrune.run(cutoff): the table it leaves.
stmtPrune(tbl, cutoff) ==
    [id \in SessionIds |->
        IF tbl[id] # NoRow /\ ExpiredAt(tbl[id], cutoff) THEN NoRow ELSE tbl[id]]

RECURSIVE JoinNL(_)
\* Array.prototype.join("\n")
JoinNL(ts) ==
    IF ts = <<>> THEN <<>>
    ELSE IF Len(ts) = 1 THEN ts[1]
    ELSE ts[1] \o <<NL>> \o JoinNL(Tail(ts))

extractContentText(content) ==
    IF content.kind = "string" THEN content.text
    ELSE IF content.kind = "parts"
    THEN LET texts == SelectSeq(content.parts, LAMBDA q : q.type = "text")
         IN JoinNL([i \in 1..Len(texts) |-> texts[i].text])
    ELSE <<>>

\* String.prototype.slice(a, b) for 0 <= a <= b
Slice(str, a, b) == SubSeq(str, a + 1, IF b < Len(str) THEN b ELSE Len(str))

\* createHash("sha256").update(seed).digest("hex"): 64 hex digits.  The hash
\* is idealised as collision-free: digit i of the digest of a seed is the
\* pair <<seed, i>>.
Sha256Hex(seed) == [i \in 1..64 |-> <<seed, i>>]

\* Mutant: the derivation mixes the clock into the seed.
resolveSessionId_Clocked(headerSessionId, systemPrompt, firstUserContent) ==
    IF headerSessionId # undefined /\ headerSessionId # <<>> THEN headerSessionId
    ELSE Slice(Sha256Hex(<<now>> \o extractContentText(firstUserContent)), 0, 32)

\* if (headerSessionId) is false for undefined and for the empty string.
resolveSessionId(headerSessionId, systemPrompt, firstUserContent) ==
    IF headerSessionId # undefined /\ headerSessionId # <<>> THEN headerSessionId
    ELSE LET firstUserText == extractContentText(firstUserContent)
             seed == (IF systemPrompt = undefined THEN <<>> ELSE systemPrompt)
                        \o <<":", ":">> \o firstUserText
             hash == Slice(Sha256Hex(seed), 0, 32)
         IN Slice(hash, 0, 8) \o <<"-">> \o Slice(hash, 8, 12) \o <<"-">>
              \o Slice(hash, 12, 16) \o <<"-">> \o Slice(hash, 16, 20) \o <<"-">>
              \o Slice(hash, 20, 32)

isNewConversation(sessionId) ==
    LET cutoff == now - SESSION_TTL_MS
    IN ~stmtExists(sessions, sessionId, cutoff)

NoArgs == <<undefined, undefined, NoContent>>

InitStore ==
    /\ sessions = [id \in SessionIds |-> NoRow]
    /\ now = 0
    /\ ticks = 0
    /\ lastOp = "none"
    /\ lastId = "none"
    /\ lastIsNew = FALSE
    /\ lastDeleted = {}
    /\ lastCount = 0
    /\ resolveArgs = NoArgs
    /\ resolveResult = <<>>

\* The message count a call was given, 0 for a call that takes none.
Counted(n) == lastCount' = n

\* What a call records about itself; the record of the call before is dropped.
Recorded(op, id, isNew, deleted, args, result) ==
    /\ lastOp' = op
    /\ lastId' = id
    /\ lastIsNew' = isNew
    /\ lastDeleted' = deleted
    /\ resolveArgs' = args
    /\ resolveResult' = result

\* Date.now() advances.
Tick(d) ==
    /\ ticks < MaxTicks
    /\ now' = now + d
    /\ ticks' = ticks + 1
    /\ Counted(0)
    /\ Recorded("tick", "none", FALSE, {}, NoArgs, <<>>)
    /\ UNCHANGED <<sessions, runVars, serverVars>>

trackSession(sessionId, backendId, messageCount) ==
    /\ sessions' = stmtUpsert(sessions, sessionId, backendId, now, now, messageCount)
    /\ Counted(messageCount)
    /\ Recorded("track", sessionId, FALSE, {}, NoArgs, <<>>)
    /\ UNCHANGED <<now, ticks>>

\* A call of trackSession(sessionId, backendId, messageCount)
CallTrackSession(sessionId, backendId, messageCount) ==
    /\ trackSession(sessionId, backendId, messageCount)
    /\ UNCHANGED <<runVars, serverVars>>

pruneExpiredSessions ==
    /\ LET cutoff == now - SESSION_TTL_MS
       IN /\ sessions' = stmtPrune(sessions, cutoff)
          /\ Counted(0)
          /\ Recorded("prune", "none", FALSE,
                      {id \in SessionIds : sessions[id] # NoRow
                                             /\ stmtPrune(sessions, cutoff)[id] = NoRow},
                      NoArgs, <<>>)
    /\ UNCHANGED <<now, ticks, runVars, serverVars>>

\* A call of isNewConversation(sessionId)
CallIsNewConversation(sessionId) ==
    /\ Counted(0)
    /\ Recorded("isNew", sessionId, isNewConversation(sessionId), {}, NoArgs, <<>>)
    /\ UNCHANGED <<sessions, now, ticks, runVars, serverVars>>

\* A call of resolveSessionId(headerSessionId, systemPrompt, firstUserContent)
CallResolveSessionId(headerSessionId, systemPrompt, firstUserContent) ==
    /\ Counted(0)
    /\ Recorded("resolve", "none", FALSE, {},
                <<headerSessionId, systemPrompt, firstUserContent>>,
                resolveSessionId(headerSessionId, systemPrompt, firstUserContent))
    /\ UNCHANGED <<sessions, now, ticks, runVars, serverVars>>

\* The in-memory variant of the store: a Map from session id to entry.

\* sessions.set(sessionId, {...}) of the variant's trackSession
memSet(tbl, id, backendId, t, msgCount) ==
    [tbl EXCEPT ![id] =
        [backend_id |-> backendId,
         created_at |-> IF tbl[id] = NoRow THEN t ELSE tbl[id].created_at,
         last_used |-> t,
         msg_count |-> msgCount]]

memIsNewConversation(sessionId, messageCount) ==
    IF messageCount > 2 THEN FALSE ELSE sessions[sessionId] = NoRow

\* A call of the variant's trackSession(sessionId, backendId, messageCount)
CallMemTrackSession(sessionId, backendId, messageCount) ==
    /\ sessions' = memSet(sessions, sessionId, backendId, now, messageCount)
    /\ Counted(messageCount)
    /\ Recorded("track", sessionId, FALSE, {}, NoArgs, <<>>)
    /\ UNCHANGED <<now, ticks, runVars, serverVars>>

\* The variant's pruneExpiredSessions: entries last used more than the TTL ago.
memPruneExpiredSessions ==
    /\ LET kept == [id \in SessionIds |->
                      IF sessions[id] # NoRow
                         /\ now - sessions[id].last_used > SESSION_TTL_MS
                      THEN NoRow ELSE sessions[id]]
       IN /\ sessions' = kept
          /\ Counted(0)
          /\ Recorded("prune", "none", FALSE,
                      {id \in SessionIds : sessions[id] # NoRow /\ kept[id] = NoRow},
                      NoArgs, <<>>)
    /\ UNCHANGED <<now, ticks, runVars, serverVars>>

\* A call of the variant's isNewConversation(sessionId, messageCount)
CallMemIsNewConversation(sessionId, messageCount) ==
    /\ Counted(messageCount)
    /\ Recorded("isNew", sessionId, memIsNewConversation(sessionId, messageCount),
                {}, NoArgs, <<>>)
    /\ UNCHANGED <<sessions, now, ticks, runVars, serverVars>>

StoreNext ==
    \/ \E d \in TickSteps : Tick(d)
    \/ \E id \in SessionIds, b \in BackendIds, n \in MessageCounts :
            CallTrackSession(id, b, n)
    \/ pruneExpiredSessions
    \/ \E id \in SessionIds : CallIsNewConversation(id)
    \/ \E a \in ResolveInputs : CallResolveSessionId(a[1], a[2], a[3])

----------------------------------------------------------------------------
(* server.ts: the chat-completions handler and the response encoder *)

\* An optional JSON member: present with a value, or absent.
Present(v) == <<v>>
Absent == <<>>

\* Chunk texts: strings, the empty string included.
ChunkTexts == {"", "a", "b"}

ServerChunks ==
    {ContentChunk(t, 0) : t \in ChunkTexts} \cup {DoneChunk(0), ErrorChunk("tool", 0)}

RECURSIVE SeqsUpTo(_, _)
\* The sequences over S of length at most n.
SeqsUpTo(S, n) ==
    IF n = 0 THEN {<<>>}
    ELSE LET shorter == SeqsUpTo(S, n - 1)
         IN shorter \cup {Append(q, x) : q \in shorter, x \in S}

\* Mutant: a content event always carries the same text.
formatSSEChunk_Blank(content, finishReason) ==
    [event |-> "chunk",
     delta |-> [role |-> Absent,
                content |-> IF finishReason # "null" THEN Absent ELSE Present("")],
     finish_reason |-> finishReason]

\* formatSSEChunk: delta is {} when finishReason is set, { content } otherwise.
formatSSEChunk(content, finishReason) ==
    [event |-> "chunk",
     delta |-> [role |-> Absent,
                content |-> IF finishReason # "null" THEN Absent ELSE Present(content)],
     finish_reason |-> finishReason]

\* Mutant: the first event carries an empty content delta instead of the role.
formatSSERoleChunk_ContentDelta ==
    [event |-> "chunk",
     delta |-> [role |-> Absent, content |-> Present("")],
     finish_reason |-> "null"]

formatSSERoleChunk ==
    [event |-> "chunk",
     delta |-> [role |-> Present("assistant"), content |-> Absent],
     finish_reason |-> "null"]

formatSSEDone == [event |-> "[DONE]"]

\* data: {"error":{"message":...,"type":"server_error"}}
SSEError(msg) == [event |-> "error", message |-> msg]

formatNonStreamingResponse(content) ==
    [message |-> [role |-> "assistant", content |-> content],
     finish_reason |-> "stop"]

\* Mutant: the error response carries a fixed message.
ErrorBody_Generic(status, msg) == [error |-> [message |-> "CLI error", code |-> status]]

\* errorResponse(res, status, message)
ErrorBody(status, msg) == [error |-> [message |-> msg, code |-> status]]

NoBody == [none |-> TRUE]

\* The request bodies: text that is not JSON, the JSON value null, and
\* objects whose model is absent, empty, not a string, of a backend that is
\* not active or of an active one, and whose messages is absent, not an
\* array, an empty array or an array of one message.
RequestBodies ==
    {[json |-> "invalid", model |-> "absent", messages |-> "absent"],
     [json |-> "null", model |-> "absent", messages |-> "absent"]}
    \cup [json : {"object"},
          model : {"absent", "", "number", "nope/m", "codex/m"},
          messages : {"absent", "string", "empty", "one"}]

NoRequest == [json |-> "none", model |-> "absent", messages |-> "absent"]

\* A valid request to an active backend.
ValidBody == [json |-> "object", model |-> "codex/m", messages |-> "one"]

\* Mutant: the backend is not looked up.
Validate_AnyBackend(body) ==
    IF body.json = "invalid" THEN 400
    ELSE IF body.json = "null" THEN 500
    ELSE IF body.model \in {"absent", ""} THEN 400
    ELSE IF body.messages # "one" THEN 400
    ELSE IF body.model = "number" THEN 500
    ELSE 0

\* The status handleChatCompletions answers with before it runs the
\* backend, 0 when it goes on to run it. A TypeError (a property of null,
\* indexOf of a number) is caught by the request listener, which answers 500.
Validate(body) ==
    IF body.json = "invalid" THEN 400
    ELSE IF body.json = "null" THEN 500
    ELSE IF body.model \in {"absent", ""} THEN 400
    ELSE IF body.messages # "one" THEN 400
    ELSE IF body.model = "number" THEN 500
    ELSE IF body.model # "codex/m" THEN 404
    ELSE 0

ValidationMessage(body) ==
    IF body.json = "invalid" THEN "Invalid JSON body"
    ELSE IF body.json = "null" THEN "Internal server error"
    ELSE IF body.model \in {"absent", ""} THEN "Missing required field: model"
    ELSE IF body.messages # "one" THEN "Missing required field: messages"
    ELSE IF body.model = "number" THEN "Internal server error"
    ELSE "Backend not found"

InitServer ==
    /\ srvChunks = <<>>
    /\ srvConsumed = <<>>
    /\ srvStream = FALSE
    /\ srvPc = "idle"
    /\ resWritten = <<>>
    /\ fullContent = ""
    /\ resStatus = 0
    /\ resBody = NoBody
    /\ srvBody = NoRequest
    /\ srvRan = FALSE
    /\ srvSession = "none"
    /\ srvIsNew = FALSE
    /\ doneAt = [id \in SessionIds |-> -1]

\* The session a request of the handler belongs to.
RequestSession == "s1"
RequestBackend == "codex"
RequestMessages == 1

\* handleChatCompletions up to the for-await loop: a request that fails
\* validation is answered at once; otherwise the backend is run with the
\* session id (sessionId stands for the value of resolveSessionId on the
\* request's header and messages) and isNewConversation of it, and a
\* streaming response writes its head and the role chunk first.
HandleChatCompletions(body, sessionId, stream) ==
    /\ srvPc = "idle"
    /\ srvBody' = body
    /\ IF Validate(body) # 0
       THEN /\ resStatus' = Validate(body)
            /\ resBody' = ErrorBody(Validate(body), ValidationMessage(body))
            /\ srvPc' = "ended"
            /\ UNCHANGED <<srvStream, resWritten, srvRan, srvSession, srvIsNew>>
       ELSE /\ srvSession' = sessionId
            /\ srvIsNew' = isNewConversation(sessionId)
            /\ srvRan' = TRUE
            /\ srvStream' = stream
            /\ resWritten' = IF stream THEN <<formatSSERoleChunk>> ELSE <<>>
            /\ resStatus' = IF stream THEN 200 ELSE 0
            /\ srvPc' = "loop"
            /\ UNCHANGED resBody
    /\ UNCHANGED <<srvChunks, srvConsumed, fullContent, doneAt, runVars, storeVars>>

\* Mutant: an error chunk is taken for a done.
IsDone_OrError(chunk) == chunk.type \in {"done", "error"}

\* chunk.type === "done": the branch that calls trackSession.
IsDone(chunk) == chunk.type = "done"

\* One iteration of the streaming loop.
StreamChunk ==
    /\ srvPc = "loop"
    /\ srvStream
    /\ srvChunks # <<>>
    /\ LET chunk == Head(srvChunks) IN
        /\ srvChunks' = Tail(srvChunks)
        /\ srvConsumed' = Append(srvConsumed, chunk)
        /\ IF chunk.type = "content" /\ chunk.text # ""
           THEN /\ resWritten' = Append(resWritten, formatSSEChunk(chunk.text, "null"))
                /\ UNCHANGED storeVars
           ELSE IF IsDone(chunk)
           THEN /\ trackSession(srvSession, RequestBackend, RequestMessages)
                /\ resWritten' = resWritten \o <<formatSSEChunk("", "stop"), formatSSEDone>>
           ELSE IF chunk.type = "error"
           THEN /\ resWritten' = Append(resWritten, SSEError(chunk.error))
                /\ UNCHANGED storeVars
           ELSE UNCHANGED <<resWritten, storeVars>>
        /\ doneAt' = IF chunk.type = "done" THEN [doneAt EXCEPT ![srvSession] = now]
                     ELSE doneAt
    /\ UNCHANGED <<srvStream, srvPc, fullContent, resStatus, resBody, callVars, runVars>>

\* The sequence has ended: res.end().
StreamEnd ==
    /\ srvPc = "loop"
    /\ srvStream
    /\ srvChunks = <<>>
    /\ srvPc' = "ended"
    /\ UNCHANGED <<srvChunks, srvConsumed, srvStream, resWritten, fullContent,
                   resStatus, resBody, callVars, doneAt, runVars, storeVars>>

\* One iteration of the non-streaming loop; an error chunk returns the 500
\* response from inside the loop.
CollectChunk ==
    /\ srvPc = "loop"
    /\ ~srvStream
    /\ srvChunks # <<>>
    /\ LET chunk == Head(srvChunks) IN
        /\ srvChunks' = Tail(srvChunks)
        /\ srvConsumed' = Append(srvConsumed, chunk)
        /\ IF chunk.type = "content" /\ chunk.text # ""
           THEN /\ fullContent' = fullContent \o chunk.text
                /\ UNCHANGED <<srvPc, resStatus, resBody, storeVars>>
           ELSE IF IsDone(chunk)
           THEN /\ trackSession(srvSession, RequestBackend, RequestMessages)
                /\ UNCHANGED <<fullContent, srvPc, resStatus, resBody>>
           ELSE IF chunk.type = "error"
           THEN /\ resStatus' = 500
                /\ resBody' = ErrorBody(500, chunk.error)
                /\ srvPc' = "ended"
                /\ UNCHANGED <<fullContent, storeVars>>
           ELSE UNCHANGED <<fullContent, srvPc, resStatus, resBody, storeVars>>
        /\ doneAt' = IF chunk.type = "done" THEN [doneAt EXCEPT ![srvSession] = now]
                     ELSE doneAt
    /\ UNCHANGED <<srvStream, resWritten, callVars, runVars>>

\* The sequence has ended: the 200 response with the accumulated text.
CollectEnd ==
    /\ srvPc = "loop"
    /\ ~srvStream
    /\ srvChunks = <<>>
    /\ resStatus' = 200
    /\ resBody' = formatNonStreamingResponse(fullContent)
    /\ srvPc' = "ended"
    /\ UNCHANGED <<srvChunks, srvConsumed, srvStream, resWritten, fullContent,
                   callVars, doneAt, runVars, storeVars>>

ServerNext ==
    \/ \E body \in RequestBodies, stream \in BOOLEAN :
            HandleChatCompletions(body, RequestSession, stream)
    \/ StreamChunk
    \/ StreamEnd
    \/ CollectChunk
    \/ CollectEnd

----------------------------------------------------------------------------
(* One request of one adapter *)

\* Requests that can be in flight at the same time.
Requests == {1, 2}

\* Session ids of two conversations whose first 8 characters agree, and of a
\* third.
GeminiSessionIds ==
    {<<"0", "1", "2", "3", "4", "5", "6", "7", "a">>,
     <<"0", "1", "2", "3", "4", "5", "6", "7", "b">>,
     <<"8", "9", "a", "b", "c", "d", "e", "f", "a">>}

\* req.systemPrompt: none (undefined or empty), or a text.
SystemPrompts == {"", "P1", "P2"}

NoFile == "ENOENT"

\* join(tmpdir(), `gemini-sysprompt-${req.sessionId.slice(0, 8)}.md`)
systemPromptPath(sessionId) == Slice(sessionId, 0, 8)

TmpPaths == {systemPromptPath(s) : s \in GeminiSessionIds}

IdleRequest ==
    [phase |-> "idle", sessionId |-> <<>>, systemPrompt |-> "",
     systemPromptFile |-> "null", killed |-> FALSE]

InitConc ==
    /\ tmpFiles = [p \in TmpPaths |-> NoFile]
    /\ inflight = [r \in Requests |-> IdleRequest]

InitRun ==
    /\ backend \in Backends
    /\ hasSystemPrompt \in (IF backend = "gemini" THEN BOOLEAN ELSE {FALSE})
    /\ stdoutAtStart = <<>>
    /\ reqTools = FALSE
    /\ reqIsNew = TRUE
    /\ reqModel = "MODEL"
    /\ gatewayEnv = DefaultEnv
    /\ reqSessionId = "s1"
    /\ otherMapping = "none"
    /\ turns = 0
    /\ InitConc
    /\ argv = <<>>
    /\ childEnv = NoEnv
    /\ lineBuf = <<>>
    /\ chunkQueue = <<>>
    /\ done = FALSE
    /\ waitResolve = FALSE
    /\ killed = FALSE
    /\ systemPromptFile = FALSE
    /\ fileOnDisk = FALSE
    /\ sessionMapping = "none"
    /\ lineNo = 0
    /\ attempt = 0
    /\ gotContent = FALSE
    /\ inner = FALSE
    /\ aborted = FALSE
    /\ nSpawned = 0
    /\ childState = [k \in 1..MaxChildren |-> "none"]
    /\ procRest = <<>>
    /\ procLines = 0
    /\ procFinal = FALSE
    /\ exitCode = "none"
    /\ pc = "run"
    /\ delivered = <<>>
    /\ enqueuedLog = <<>>
    /\ bridgeOut = <<>>
    /\ deliveredAtCancel = -1
    /\ deliveredAtAbort = -1

Init == InitRun /\ InitStore /\ InitServer

----------------------------------------------------------------------------
(* Bridge primitives: the values enqueue() and finish() leave *)

\* Mutant: next() takes the newest chunk (pop instead of shift).
Shift_Pop(q) == [value |-> q[Len(q)], rest |-> SubSeq(q, 1, Len(q) - 1)]

\* chunkQueue.shift(): the chunk next() returns and the queue it leaves.
Shift(q) == [value |-> Head(q), rest |-> Tail(q)]

\* A callback that has enqueued cs (possibly none) and, if fin, called finish():
\* the stored resolver, if any, is cleared and called, which makes the
\* suspended consumer runnable.
\* Mutant: enqueue does not call the stored resolver, only finish does.
Wakes_OnlyOnFinish(cs, fin) == waitResolve /\ fin

Wakes(cs, fin) == waitResolve /\ (cs # <<>> \/ fin)

\* Mutant: the resolver is called and left in the slot.
BridgeAfter_KeepsResolver(cs, fin) ==
    /\ chunkQueue' = chunkQueue \o cs
    /\ enqueuedLog' = enqueuedLog \o cs
    /\ done' = (done \/ fin)
    /\ waitResolve' = waitResolve
    /\ pc' = IF Wakes(cs, fin) THEN "woken" ELSE pc

BridgeAfter(cs, fin) ==
    /\ chunkQueue' = chunkQueue \o cs
    /\ enqueuedLog' = enqueuedLog \o cs
    /\ done' = (done \/ fin)
    /\ waitResolve' = (waitResolve /\ ~Wakes(cs, fin))
    /\ pc' = IF Wakes(cs, fin) THEN "woken" ELSE pc

\* Mutant: cleanup() forgets the path and leaves the file.
CleanupFile_LeavesFile ==
    /\ fileOnDisk' = fileOnDisk
    /\ systemPromptFile' = FALSE

\* cleanup(): unlink the side-channel file, forget its path.
CleanupFile ==
    /\ fileOnDisk' = (fileOnDisk /\ ~systemPromptFile)
    /\ systemPromptFile' = FALSE

\* finish() of gemini runs cleanup() first.
FinishCleanup(fin) ==
    IF fin /\ backend = "gemini" THEN CleanupFile
    ELSE UNCHANGED <<fileOnDisk, systemPromptFile>>

Callbacks == pc \in {"wait", "backoff", "ended"}

\* Mutant: the termination request is never sent.
Signalled_Never(st) == st

\* child.kill("SIGTERM") / ptyProcess.kill(): a running subprocess is sent the
\* termination request; one that has closed is not signalled.
Signalled(st) == IF st = "running" THEN "terminating" ELSE st

Live(st) == st \in {"running", "terminating"}

\* The bridge of the current subprocess has a consumer: the decorator has not
\* abandoned it for a retry.
Attached == nSpawned >= 1 /\ pc # "backoff"

----------------------------------------------------------------------------
(* Actions *)

\* spawn: codex spawnCodex on the first next() and after each backoff; gemini
\* and claude-code in run().
Spawn ==
    /\ pc = "run"
    /\ ~inner
    /\ ~(backend = "codex" /\ killed)
    /\ nSpawned < MaxChildren
    /\ procRest' = <<>>
    /\ procLines' = 0
    /\ procFinal' = FALSE
    /\ nSpawned' = nSpawned + 1
    /\ childState' = [childState EXCEPT ![nSpawned + 1] =
                        IF backend = "codex" /\ aborted THEN "terminating"
                        ELSE "running"]
    /\ lineBuf' = <<>>
    /\ chunkQueue' = <<>>
    /\ done' = FALSE
    /\ waitResolve' = FALSE
    /\ lineNo' = 0
    /\ enqueuedLog' = <<>>
    /\ bridgeOut' = <<>>
    /\ inner' = TRUE
    /\ systemPromptFile' = (backend = "gemini" /\ hasSystemPrompt)
    /\ fileOnDisk' = (fileOnDisk \/ (backend = "gemini" /\ hasSystemPrompt))
    /\ killed' = (killed \/ (backend = "codex" /\ aborted))
    /\ pc' = IF backend = "codex" /\ aborted THEN "ended" ELSE "run"
    /\ exitCode' = "none"
    /\ argv' = IF backend = "codex" /\ nSpawned > 0 THEN argv
               ELSE BuildArgs(backend, reqIsNew, sessionMapping, reqModel,
                              hasSystemPrompt, reqTools)
    /\ childEnv' = LaunchEnv(backend, gatewayEnv, hasSystemPrompt)
    /\ UNCHANGED <<fixedVars, sessionMapping, attempt, gotContent, aborted,
                   delivered, deliveredAtCancel, deliveredAtAbort>>

\* The subprocess writes one more line to its stdout, with or without the
\* terminating newline.
Write(line, nl) ==
    /\ Callbacks
    /\ Attached
    /\ Live(childState[nSpawned])
    /\ procLines < MaxLines
    /\ ~procFinal
    /\ procRest' = procRest \o line \o (IF nl THEN <<NL>> ELSE <<>>)
    /\ procLines' = procLines + 1
    /\ procFinal' = ~nl
    /\ UNCHANGED <<fixedVars, launchVars, bridgeVars, retryVars, aborted, nSpawned,
                   childState, exitCode, pc, delivered, ghostVars>>

\* stdout "data" / pty onData: n characters arrive.
Data(n) ==
    /\ Callbacks
    /\ Attached
    /\ Live(childState[nSpawned])
    /\ n \in 1..Len(procRest)
    /\ LET data == SubSeq(procRest, 1, n)
           cleaned == IF backend = "claude-code" THEN stripAnsi(data) ELSE data
           segs == SplitNL(lineBuf \o cleaned)
           lines == SubSeq(segs, 1, Len(segs) - 1)
       IN /\ lineBuf' = segs[Len(segs)]
          /\ lineNo' = lineNo + Len(lines)
          /\ sessionMapping' = MappingAfterLines(backend, lines, sessionMapping)
          /\ BridgeAfter(ChunksOfLines(backend, lines, lineNo), FALSE)
    /\ procRest' = SubSeq(procRest, n + 1, Len(procRest))
    /\ UNCHANGED <<fixedVars, launchVars, killed, systemPromptFile, fileOnDisk,
                   retryVars, aborted, nSpawned, childState, procLines,
                   procFinal, exitCode, delivered, bridgeOut, deliveredAtCancel,
                   deliveredAtAbort>>

\* child "close" / pty onExit.  A subprocess closes with its own exit code
\* once its output is delivered; one that was sent a termination request may
\* close at any time, undelivered output lost, and may report no exit code.
Close(code) ==
    /\ Callbacks
    /\ Attached
    /\ Live(childState[nSpawned])
    /\ IF childState[nSpawned] = "terminating" THEN code \in CloseCodes
       ELSE procRest = <<>> /\ code \in ExitCodes
    /\ LET t == Trim(lineBuf)
           rem == IF t # <<>> THEN processRemainder(backend, t, lineNo + 1) ELSE <<>>
           err == IF CloseEnqueuesError(backend, code, killed)
                  THEN <<ErrorChunk(ExitMessage(code), 0)>> ELSE <<>>
       IN /\ sessionMapping' = IF t # <<>>
                               THEN MappingAfterRemainder(backend, t, sessionMapping)
                               ELSE sessionMapping
          /\ lineBuf' = IF t # <<>> THEN <<>> ELSE lineBuf
          /\ BridgeAfter(rem \o err, TRUE)
    /\ FinishCleanup(TRUE)
    /\ childState' = [childState EXCEPT ![nSpawned] = "closed"]
    /\ procRest' = <<>>
    /\ procLines' = 0
    /\ procFinal' = FALSE
    /\ exitCode' = code
    /\ UNCHANGED <<fixedVars, launchVars, killed, lineNo, retryVars, aborted,
                   nSpawned, delivered, bridgeOut, deliveredAtCancel,
                   deliveredAtAbort>>

\* A subprocess abandoned by a retry closes.  Its bridge has no consumer any
\* more, so what its late output and its close enqueue there is not modelled.
StaleClose(k) ==
    /\ Callbacks
    /\ k < nSpawned \/ (k = nSpawned /\ pc = "backoff")
    /\ Live(childState[k])
    /\ childState' = [childState EXCEPT ![k] = "closed"]
    /\ UNCHANGED <<fixedVars, launchVars, bridgeVars, retryVars, aborted,
                   nSpawned, procRest, procLines, procFinal, exitCode, pc,
                   delivered, ghostVars>>

\* The request's abort signal fires (the HTTP connection closed).
Abort ==
    /\ Callbacks
    /\ ~aborted
    /\ nSpawned >= 1
    /\ aborted' = TRUE
    /\ killed' = TRUE
    /\ childState' = [k \in 1..MaxChildren |->
                        IF backend = "codex" \/ k = nSpawned
                        THEN Signalled(childState[k]) ELSE childState[k]]
    /\ BridgeAfter(<<>>, OnAbortFinishes(backend))
    /\ FinishCleanup(OnAbortFinishes(backend))
    /\ deliveredAtCancel' = IF deliveredAtCancel = -1 THEN Len(delivered)
                            ELSE deliveredAtCancel
    /\ deliveredAtAbort' = Len(delivered)
    /\ UNCHANGED <<fixedVars, launchVars, lineBuf, sessionMapping, lineNo,
                   retryVars, nSpawned, procRest, procLines, procFinal, exitCode,
                   delivered, bridgeOut>>

\* handle.kill()
Kill ==
    /\ Callbacks
    /\ nSpawned >= 1
    /\ killed' = TRUE
    /\ childState' = [childState EXCEPT ![nSpawned] = Signalled(@)]
    /\ IF backend = "gemini" THEN CleanupFile
       ELSE UNCHANGED <<fileOnDisk, systemPromptFile>>
    /\ deliveredAtCancel' = IF deliveredAtCancel = -1 THEN Len(delivered)
                            ELSE deliveredAtCancel
    /\ UNCHANGED <<fixedVars, launchVars, lineBuf, chunkQueue, done, waitResolve,
                   sessionMapping, lineNo, retryVars, aborted, nSpawned, procRest,
                   procLines, procFinal, exitCode, pc, delivered, enqueuedLog,
                   bridgeOut, deliveredAtAbort>>

\* The retry backoff timer fires: inner = null, back to the top of the loop.
TimerFire ==
    /\ pc = "backoff"
    /\ inner' = FALSE
    /\ pc' = "run"
    /\ UNCHANGED <<fixedVars, launchVars, bridgeVars, attempt, gotContent,
                   aborted, procVars, delivered, ghostVars>>

\* The consumer's next() finds killed set (codex, top of the retry loop).
NextKilled ==
    /\ pc = "run"
    /\ backend = "codex"
    /\ killed
    /\ pc' = "ended"
    /\ UNCHANGED <<fixedVars, launchVars, bridgeVars, retryVars, aborted,
                   procVars, delivered, ghostVars>>

\* The consumer is inside the bridge's next(): either it has just entered
\* (for codex, past the killed test at the top of the retry loop), or its
\* stored resolver has been called, which resumes it after the await without
\* passing the top of the loop again.
InBridgeNext ==
    \/ pc = "woken"
    \/ pc = "run" /\ inner /\ ~(backend = "codex" /\ killed)

\* next() returns the chunk at the head of the queue; the codex decorator
\* passes it on, or swallows an error and schedules a retry.
NextChunk ==
    /\ InBridgeNext
    /\ chunkQueue # <<>>
    /\ LET c == Shift(chunkQueue).value IN
        /\ chunkQueue' = Shift(chunkQueue).rest
        /\ bridgeOut' = Append(bridgeOut, c)
        /\ IF backend = "codex" /\ RetryEligible(c, gotContent, killed, attempt)
           THEN /\ attempt' = attempt + 1
                /\ childState' = [childState EXCEPT ![nSpawned] = Signalled(@)]
                /\ pc' = "backoff"
                /\ UNCHANGED <<gotContent, delivered>>
           ELSE /\ gotContent' = (gotContent \/ (backend = "codex" /\ c.type = "content"))
                /\ delivered' = Append(delivered,
                                       IF backend = "codex" THEN Annotate(c, attempt)
                                       ELSE c)
                /\ pc' = "run"
                /\ UNCHANGED <<attempt, childState>>
    /\ UNCHANGED <<fixedVars, launchVars, lineBuf, done, waitResolve, killed,
                   systemPromptFile, fileOnDisk, sessionMapping, lineNo, inner,
                   aborted, nSpawned, procRest, procLines, procFinal, exitCode,
                   enqueuedLog, deliveredAtCancel, deliveredAtAbort>>

\* next() finds the queue empty and the bridge finished: end of sequence.
NextEnd ==
    /\ InBridgeNext
    /\ chunkQueue = <<>>
    /\ done
    /\ pc' = "ended"
    /\ UNCHANGED <<fixedVars, launchVars, bridgeVars, retryVars, aborted,
                   procVars, delivered, ghostVars>>

\* next() finds the queue empty and the bridge unfinished: store the resolver
\* and suspend.
NextWait ==
    /\ pc = "run"
    /\ inner
    /\ ~(backend = "codex" /\ killed)
    /\ chunkQueue = <<>>
    /\ ~done
    /\ waitResolve' = TRUE
    /\ pc' = "wait"
    /\ UNCHANGED <<fixedVars, launchVars, lineBuf, chunkQueue, done, killed,
                   systemPromptFile, fileOnDisk, sessionMapping, lineNo, retryVars,
                   aborted, procVars, delivered, ghostVars>>

MaxData == 5 * MaxLines

Next ==
    \/ Spawn
    \/ \E line \in LineTexts(backend), nl \in BOOLEAN : Write(line, nl)
    \/ \E n \in 1..MaxData : Data(n)
    \/ \E code \in CloseCodes : Close(code)
    \/ \E k \in 1..MaxChildren : StaleClose(k)
    \/ Abort
    \/ Kill
    \/ TimerFire
    \/ NextKilled
    \/ NextChunk
    \/ NextEnd
    \/ NextWait

Spec == Init /\ [][Next]_vars

\* spawn() of a command that cannot be started (ENOENT, EACCES): it returns a
\* child all the same, run() wires it as any other, and the child will emit
\* "error" on the next tick. It never writes and never closes before that.
SpawnFails ==
    /\ pc = "run"
    /\ ~inner
    /\ ~(backend = "codex" /\ killed)
    /\ nSpawned < MaxChildren
    /\ procRest' = <<>>
    /\ procLines' = 0
    /\ procFinal' = FALSE
    /\ nSpawned' = nSpawned + 1
    /\ childState' = [childState EXCEPT ![nSpawned + 1] = "failed"]
    /\ lineBuf' = <<>>
    /\ chunkQueue' = <<>>
    /\ done' = FALSE
    /\ waitResolve' = FALSE
    /\ lineNo' = 0
    /\ enqueuedLog' = <<>>
    /\ bridgeOut' = <<>>
    /\ inner' = TRUE
    /\ systemPromptFile' = (backend = "gemini" /\ hasSystemPrompt)
    /\ fileOnDisk' = (fileOnDisk \/ (backend = "gemini" /\ hasSystemPrompt))
    /\ killed' = (killed \/ (backend = "codex" /\ aborted))
    /\ pc' = IF backend = "codex" /\ aborted THEN "ended" ELSE "run"
    /\ exitCode' = "none"
    /\ argv' = IF backend = "codex" /\ nSpawned > 0 THEN argv
               ELSE BuildArgs(backend, reqIsNew, sessionMapping, reqModel,
                              hasSystemPrompt, reqTools)
    /\ childEnv' = LaunchEnv(backend, gatewayEnv, hasSystemPrompt)
    /\ UNCHANGED <<fixedVars, sessionMapping, attempt, gotContent, aborted,
                   delivered, deliveredAtCancel, deliveredAtAbort>>

\* The child that could not be started emits "error". The adapters register
\* no listener for it, so the emit throws from the event loop: an uncaught
\* exception, which ends the gateway process (pc = "crashed").
ChildError ==
    /\ Callbacks
    /\ \E k \in 1..MaxChildren : childState[k] = "failed"
    /\ pc' = "crashed"
    /\ UNCHANGED <<fixedVars, launchVars, bridgeVars, retryVars, aborted,
                   procVars, delivered, ghostVars>>

SpawnFailureNext ==
    \/ Next
    \/ SpawnFails
    \/ ChildError

\* A run whose subprocesses may fail to start.
SpecSpawnFailure == Init /\ [][SpawnFailureNext]_vars

\* Gemini requests in flight at the same time.  Each is a run() of its own
\* with its own systemPromptFile, done and killed; the temporary directory is
\* the one thing they share.

\* Everything but the concurrent requests and the temporary directory.
singleVars ==
    <<backend, hasSystemPrompt, stdoutAtStart, reqTools, reqIsNew, reqModel,
      gatewayEnv, reqSessionId, otherMapping, turns, launchVars, bridgeVars,
      retryVars, aborted, procVars, pc, delivered, ghostVars, storeVars,
      serverVars>>

\* unlinkSync(path), an error (no such file) ignored.
Unlinked(files, path) == [files EXCEPT ![path] = NoFile]

\* cleanup() of request r: the files it leaves.
CleanedFiles(r) ==
    IF inflight[r].systemPromptFile # "null"
    THEN Unlinked(tmpFiles, inflight[r].systemPromptFile)
    ELSE tmpFiles

\* run() of request r: the file is written when the request has a system
\* prompt, and the subprocess is spawned.
GeminiRun(r, sessionId, systemPrompt) ==
    /\ inflight[r].phase = "idle"
    /\ tmpFiles' = IF systemPrompt # ""
                   THEN [tmpFiles EXCEPT ![systemPromptPath(sessionId)] = systemPrompt]
                   ELSE tmpFiles
    /\ inflight' = [inflight EXCEPT ![r] =
                        [phase |-> "running", sessionId |-> sessionId,
                         systemPrompt |-> systemPrompt,
                         systemPromptFile |-> IF systemPrompt # ""
                                              THEN systemPromptPath(sessionId)
                                              ELSE "null",
                         killed |-> FALSE]]
    /\ UNCHANGED singleVars

\* The close handler or onAbort of request r calls finish(): cleanup(), done.
GeminiFinish(r) ==
    /\ inflight[r].phase = "running"
    /\ tmpFiles' = CleanedFiles(r)
    /\ inflight' = [inflight EXCEPT ![r].phase = "ended",
                                    ![r].systemPromptFile = "null"]
    /\ UNCHANGED singleVars

\* handle.kill() of request r: killed, SIGTERM, cleanup().
GeminiKill(r) ==
    /\ inflight[r].phase = "running"
    /\ tmpFiles' = CleanedFiles(r)
    /\ inflight' = [inflight EXCEPT ![r].killed = TRUE,
                                    ![r].systemPromptFile = "null"]
    /\ UNCHANGED singleVars

ConcurrentNext ==
    \/ \E r \in Requests, s \in GeminiSessionIds, p \in SystemPrompts : GeminiRun(r, s, p)
    \/ \E r \in Requests : GeminiFinish(r)
    \/ \E r \in Requests : GeminiKill(r)

InitConcurrent == Init /\ backend = "gemini" /\ ~hasSystemPrompt

SpecConcurrent == InitConcurrent /\ [][ConcurrentNext]_vars

\* The session store on its own: no request is running.
InitSession == InitStore /\ InitServer /\ InitRun /\ backend = "codex"

SpecSession == InitSession /\ [][StoreNext]_vars

\* The in-memory variant of the session store on its own.
MemoryNext ==
    \/ \E d \in TickSteps : Tick(d)
    \/ \E id \in SessionIds, b \in BackendIds, n \in MessageCounts :
            CallMemTrackSession(id, b, n)
    \/ memPruneExpiredSessions
    \/ \E id \in SessionIds, n \in MessageCounts : CallMemIsNewConversation(id, n)

SpecMemory == InitSession /\ [][MemoryNext]_vars

\* The HTTP handler consuming a chunk sequence, whatever it is.
InitHandler ==
    /\ InitRun /\ backend = "codex"
    /\ InitStore
    /\ srvChunks \in SeqsUpTo(ServerChunks, MaxChunks)
    /\ srvConsumed = <<>>
    /\ srvStream = FALSE
    /\ srvPc = "idle"
    /\ resWritten = <<>>
    /\ fullContent = ""
    /\ resStatus = 0
    /\ resBody = NoBody
    /\ srvBody = NoRequest
    /\ srvRan = FALSE
    /\ srvSession = "none"
    /\ srvIsNew = FALSE
    /\ doneAt = [id \in SessionIds |-> -1]

SpecServer == InitHandler /\ [][ServerNext]_vars

\* Requests one after another, each with a session id, while the clock
\* advances and the hourly prune runs.
TurnOutputs == {<<DoneChunk(0)>>, <<ErrorChunk("tool", 0)>>, <<ContentChunk("a", 0)>>}

TurnBodies == {ValidBody, [json |-> "object", model |-> "nope/m", messages |-> "one"]}

InitTurns ==
    /\ InitRun /\ backend = "codex"
    /\ InitStore
    /\ InitServer

\* The request listener is called for the next request, whose run will
\* produce the chunk sequence out.
NextRequest(out) ==
    /\ srvPc = "ended"
    /\ srvChunks' = out
    /\ srvConsumed' = <<>>
    /\ srvStream' = FALSE
    /\ srvPc' = "idle"
    /\ resWritten' = <<>>
    /\ fullContent' = ""
    /\ resStatus' = 0
    /\ resBody' = NoBody
    /\ srvBody' = NoRequest
    /\ srvRan' = FALSE
    /\ srvSession' = "none"
    /\ srvIsNew' = FALSE
    /\ UNCHANGED <<doneAt, runVars, storeVars>>

TurnsNext ==
    \/ \E d \in TickSteps : Tick(d)
    \/ pruneExpiredSessions
    \/ \E body \in TurnBodies, id \in SessionIds, stream \in BOOLEAN :
            HandleChatCompletions(body, id, stream)
    \/ StreamChunk
    \/ StreamEnd
    \/ CollectChunk
    \/ CollectEnd
    \/ \E out \in TurnOutputs : NextRequest(out)

SpecTurns == InitTurns /\ [][TurnsNext]_vars

----------------------------------------------------------------------------
(* Launching: run() with any request, gateway environment and cached      *)
(* native session id, up to the spawn.                                     *)

InitLaunch ==
    /\ backend \in Backends
    /\ hasSystemPrompt \in BOOLEAN
    /\ stdoutAtStart = <<>>
    /\ reqTools \in BOOLEAN
    /\ reqIsNew \in BOOLEAN
    /\ reqModel \in {"", "MODEL"}
    /\ gatewayEnv \in GatewayEnvs
    /\ reqSessionId = "s1"
    /\ otherMapping = "none"
    /\ turns = 0
    /\ InitConc
    /\ argv = <<>>
    /\ childEnv = NoEnv
    /\ sessionMapping \in {"none", "native"}
    /\ lineBuf = <<>>
    /\ chunkQueue = <<>>
    /\ done = FALSE
    /\ waitResolve = FALSE
    /\ killed = FALSE
    /\ systemPromptFile = FALSE
    /\ fileOnDisk = FALSE
    /\ lineNo = 0
    /\ attempt = 0
    /\ gotContent = FALSE
    /\ inner = FALSE
    /\ aborted = FALSE
    /\ nSpawned = 0
    /\ childState = [k \in 1..MaxChildren |-> "none"]
    /\ procRest = <<>>
    /\ procLines = 0
    /\ procFinal = FALSE
    /\ exitCode = "none"
    /\ pc = "run"
    /\ delivered = <<>>
    /\ enqueuedLog = <<>>
    /\ bridgeOut = <<>>
    /\ deliveredAtCancel = -1
    /\ deliveredAtAbort = -1
    /\ InitStore
    /\ InitServer

LaunchNext == Spawn

SpecLaunch == InitLaunch /\ [][LaunchNext]_vars

----------------------------------------------------------------------------
(* Turns one after another on two gateway session ids, codex or gemini:    *)
(* each turn is a run() of its own, the sessionMapping of the adapter      *)
(* module lives on.                                                        *)

MaxTurns == 2

\* What the subprocess of a turn writes: started events with either id, a
\* successful end of turn.
ResumeLines == {JsonLine("s"), JsonLine("t"), JsonLine("d")}

InitResume ==
    /\ InitRun
    /\ backend \in {"codex", "gemini"}
    /\ ~hasSystemPrompt
    /\ InitStore
    /\ InitServer

\* The turn has ended; run() is called for the next request, of session id
\* sid, with isNewConversation = isNew.
NextTurn(sid, isNew) ==
    /\ pc = "ended"
    /\ turns < MaxTurns
    /\ turns' = turns + 1
    /\ reqSessionId' = sid
    /\ reqIsNew' = isNew
    /\ sessionMapping' = IF sid = reqSessionId THEN sessionMapping ELSE otherMapping
    /\ otherMapping' = IF sid = reqSessionId THEN otherMapping ELSE sessionMapping
    /\ argv' = <<>>
    /\ childEnv' = NoEnv
    /\ lineBuf' = <<>>
    /\ chunkQueue' = <<>>
    /\ done' = FALSE
    /\ waitResolve' = FALSE
    /\ killed' = FALSE
    /\ systemPromptFile' = FALSE
    /\ fileOnDisk' = FALSE
    /\ lineNo' = 0
    /\ attempt' = 0
    /\ gotContent' = FALSE
    /\ inner' = FALSE
    /\ aborted' = FALSE
    /\ nSpawned' = 0
    /\ childState' = [k \in 1..MaxChildren |-> "none"]
    /\ procRest' = <<>>
    /\ procLines' = 0
    /\ procFinal' = FALSE
    /\ exitCode' = "none"
    /\ pc' = "run"
    /\ delivered' = <<>>
    /\ enqueuedLog' = <<>>
    /\ bridgeOut' = <<>>
    /\ deliveredAtCancel' = -1
    /\ deliveredAtAbort' = -1
    /\ UNCHANGED <<backend, hasSystemPrompt, stdoutAtStart, reqTools, reqModel,
                   gatewayEnv, concVars, storeVars, serverVars>>

ResumeNext ==
    \/ Spawn
    \/ \E line \in ResumeLines, nl \in BOOLEAN : Write(line, nl)
    \/ \E n \in 1..MaxData : Data(n)
    \/ \E code \in ExitCodes : Close(code)
    \/ TimerFire
    \/ NextChunk
    \/ NextEnd
    \/ NextWait
    \/ \E sid \in SessionIds, isNew \in BOOLEAN : NextTurn(sid, isNew)

SpecResume == InitResume /\ [][ResumeNext]_vars

----------------------------------------------------------------------------
(* Parsing a stream: the subprocess has written its whole output, valid    *)
(* assistant-text lines and lines that are no JSON, before the first data  *)
(* callback; the callbacks then cut it at any place.                       *)

\* A line that does not parse: JSON text that lacks its closing brace.
NotJson == <<"c">>

RECURSIVE Flatten(_)
\* The lines, each with its newline.
Flatten(ls) == IF ls = <<>> THEN <<>> ELSE Head(ls) \o <<NL>> \o Flatten(Tail(ls))

ParseStreams ==
    {Flatten(ls) : ls \in SeqsUpTo({JsonLine("c"), NotJson}, MaxStreamLines) \ {<<>>}}

\* The complete lines of a stream.
StreamLines(str) == LET segs == SplitNL(str) IN SubSeq(segs, 1, Len(segs) - 1)

\* A spawned subprocess that has written one of the streams, an empty bridge
\* and a consumer suspended in next().
InitStream(streams) ==
    /\ backend \in Backends
    /\ hasSystemPrompt = FALSE
    /\ stdoutAtStart \in streams
    /\ reqTools = FALSE
    /\ reqIsNew = TRUE
    /\ reqModel = "MODEL"
    /\ gatewayEnv = DefaultEnv
    /\ reqSessionId = "s1"
    /\ otherMapping = "none"
    /\ turns = 0
    /\ InitConc
    /\ argv = BuildArgs(backend, TRUE, "none", "MODEL", FALSE, FALSE)
    /\ childEnv = LaunchEnv(backend, DefaultEnv, FALSE)
    /\ procRest = stdoutAtStart
    /\ procLines = Len(StreamLines(stdoutAtStart))
    /\ procFinal = FALSE
    /\ nSpawned = 1
    /\ childState = [k \in 1..MaxChildren |-> IF k = 1 THEN "running" ELSE "none"]
    /\ exitCode = "none"
    /\ inner = TRUE
    /\ pc = "wait"
    /\ waitResolve = TRUE
    /\ lineBuf = <<>>
    /\ chunkQueue = <<>>
    /\ done = FALSE
    /\ killed = FALSE
    /\ systemPromptFile = FALSE
    /\ fileOnDisk = FALSE
    /\ sessionMapping = "none"
    /\ lineNo = 0
    /\ attempt = 0
    /\ gotContent = FALSE
    /\ aborted = FALSE
    /\ delivered = <<>>
    /\ enqueuedLog = <<>>
    /\ bridgeOut = <<>>
    /\ deliveredAtCancel = -1
    /\ deliveredAtAbort = -1
    /\ InitStore
    /\ InitServer

InitParse == InitStream(ParseStreams)

ParseNext ==
    \/ \E n \in 1..(3 * MaxStreamLines) : Data(n)
    \/ Close("0")
    \/ NextChunk
    \/ NextEnd
    \/ NextWait

SpecParse == InitParse /\ [][ParseNext]_vars

\* The same with a consumer that keeps calling next(): a next() that can
\* return, end or suspend does so (the continuation of an await is a
\* microtask, and the for-await loop calls next() again at once).
SpecBridgeLive ==
    /\ InitParse
    /\ [][ParseNext]_vars
    /\ WF_vars(NextChunk)
    /\ WF_vars(NextEnd)
    /\ WF_vars(NextWait)

----------------------------------------------------------------------------
(* Splitting a stream: the same output delivered in data callbacks that cut *)
(* it anywhere, inside a line and inside a terminal escape sequence.        *)

MaxSplitLines == 2

\* Lines of the stream: an assistant text, a successful result, and an
\* assistant text behind a colour escape sequence as a terminal writes it.
SplitLines == {JsonLine("c"), JsonLine("d"), <<ESC, CSI, "c", BRACE>>}

\* The streams: the lines each with its newline, or the last one without.
SplitStreams ==
    LET whole == {Flatten(ls) : ls \in SeqsUpTo(SplitLines, MaxSplitLines) \ {<<>>}}
    IN whole \cup {SubSeq(str, 1, Len(str) - 1) : str \in whole}

MaxSplitData == 5 * MaxSplitLines

InitSplit == InitStream(SplitStreams)

SplitNext ==
    \/ \E n \in 1..MaxSplitData : Data(n)
    \/ Close("0")
    \/ NextChunk
    \/ NextEnd
    \/ NextWait

SpecSplit == InitSplit /\ [][SplitNext]_vars

----------------------------------------------------------------------------
(* The retry scenario: a Codex subprocess that fails on the first two      *)
(* attempts before yielding anything else, and on the third attempt writes *)
(* an agent message, then turn.completed, and exits with code 0.  No       *)
(* cancellation.                                                           *)

\* Lines that enqueue neither content nor done.
FailingLines == {JsonLine("e"), JsonLine("s"), <<"c">>, <<SP>>}

\* What the attempt that succeeds writes: an agent message, turn.completed.
SucceedingLines == <<JsonLine("c"), JsonLine("d")>>

ScenarioLine(line, nl) ==
    IF nSpawned < MaxAttempts THEN line \in FailingLines
    ELSE /\ procLines < Len(SucceedingLines)
         /\ line = SucceedingLines[procLines + 1]
         /\ (nl \/ procLines + 1 = Len(SucceedingLines))

ScenarioCode(code) ==
    IF nSpawned < MaxAttempts THEN code = "1"
    ELSE code = "0" /\ procLines = Len(SucceedingLines)

ScenarioInit == InitRun /\ InitStore /\ InitServer /\ backend = "codex"

ScenarioNext ==
    \/ Spawn
    \/ \E line \in LineTexts("codex"), nl \in BOOLEAN :
            ScenarioLine(line, nl) /\ Write(line, nl)
    \/ \E n \in 1..MaxData : Data(n)
    \/ \E code \in CloseCodes : ScenarioCode(code) /\ Close(code)
    \/ \E k \in 1..MaxChildren : StaleClose(k)
    \/ TimerFire
    \/ NextChunk
    \/ NextEnd
    \/ NextWait

SpecRetryScenario == ScenarioInit /\ [][ScenarioNext]_vars

----------------------------------------------------------------------------
(* Properties of a run *)

Types(cs) == [i \in 1..Len(cs) |-> cs[i].type]

HasContent(cs) == \E i \in 1..Len(cs) : cs[i].type = "content"

IsExitError(c) == c.type = "error" /\ c.error \in {ExitMessage(code) : code \in CloseCodes}

Cancelled == killed \/ aborted

\* The numbers of the lines among the first k of the stream that were written
\* as a JSON content event.
ParsedLines(k) ==
    LET ls == StreamLines(stdoutAtStart)
    IN SelectSeq([i \in 1..k |-> i], LAMBDA i : ls[i] = JsonLine("c"))

\* C11: of a stream of assistant-text lines and lines that are no JSON, the
\* chunks enqueued are one content chunk for each assistant-text line the
\* data callbacks have completed, in line order, and none for a line that does
\* not parse; at the end of the sequence the consumer has received exactly
\* those of the whole stream.
C11_MalformedDiscarded ==
    /\ Types(enqueuedLog) = [i \in 1..Len(enqueuedLog) |-> "content"]
    /\ [i \in 1..Len(enqueuedLog) |-> enqueuedLog[i].line] = ParsedLines(lineNo)
    /\ pc = "ended" =>
            /\ delivered = enqueuedLog
            /\ lineNo = Len(StreamLines(stdoutAtStart))

\* C11 witness: valid, not JSON, valid: the consumer received the chunks of
\* lines 1 and 3 and the sequence ended.
C11_Witness ==
    /\ stdoutAtStart = Flatten(<<JsonLine("c"), NotJson, JsonLine("c")>>)
    /\ pc = "ended"
    /\ [i \in 1..Len(delivered) |-> delivered[i].line] = <<1, 3>>

\* The chunks of cs that protocol parsing enqueued: all but the exit error.
Parsed(cs) == SelectSeq(cs, LAMBDA c : ~IsExitError(c))

HasTerminal(cs) == \E i \in 1..Len(cs) : IsTerminal(cs[i])

\* C18: when the close handler receives a non-zero exit code, the request is
\* not cancelled and parsing has enqueued no terminal chunk, it enqueues one
\* error chunk citing the exit code behind what parsing enqueued and finishes
\* the bridge; an exit error is the last chunk the bridge's next() returns.
C18_ExitErrorEnqueued ==
    [][/\ (exitCode = "none" /\ exitCode' \notin {"none", "0"} /\ ~killed
            /\ ~HasTerminal(Parsed(enqueuedLog')))
          => /\ enqueuedLog' = Parsed(enqueuedLog')
                                  \o <<ErrorChunk(ExitMessage(exitCode'), 0)>>
             /\ Parsed(enqueuedLog') = SubSeq(enqueuedLog', 1, Len(enqueuedLog') - 1)
             /\ done'
       /\ \A i \in 1..Len(bridgeOut') :
            IsExitError(bridgeOut'[i]) => i = Len(bridgeOut')]_vars

\* C18 witness: the process wrote an assistant-text line and exited with code
\* 1; the bridge returned content, then the exit error, then end of sequence.
C18_Witness ==
    /\ backend = "gemini" /\ ~Cancelled /\ exitCode = "1" /\ pc = "ended"
    /\ Types(bridgeOut) = <<"content", "error">>
    /\ IsExitError(bridgeOut[2])

\* C19 (as claimed): an exit error is never enqueued behind a terminal chunk
\* that parsing enqueued.
C19_ExitIgnoredAfterTerminal ==
    \A i \in 1..Len(enqueuedLog) :
        IsExitError(enqueuedLog[i]) =>
            ~HasTerminal(SubSeq(enqueuedLog, 1, i - 1))

\* C20 (as claimed): once the abort signal has fired, no step enqueues a chunk.
C20_NoEnqueueAfterAbort ==
    [][aborted => enqueuedLog' = enqueuedLog]_vars

\* C1 (as claimed): in a run that is not cancelled, no chunk follows a terminal
\* chunk (done or error) out of the bridge, and a bridge that has signalled
\* end of sequence has handed over exactly one terminal chunk.
C1_ExactlyOneTerminal ==
    ~Cancelled =>
        /\ \A i \in 1..(Len(bridgeOut) - 1) : ~IsTerminal(bridgeOut[i])
        /\ (pc = "ended" /\ inner) =>
                (bridgeOut # <<>> /\ IsTerminal(bridgeOut[Len(bridgeOut)]))

\* C2: the chunks next() has returned, followed by those still queued, are
\* exactly the chunks enqueued, in enqueue order, and the chunks were enqueued
\* in the order of the stdout lines they come from.
C2_FifoDelivery ==
    /\ enqueuedLog = bridgeOut \o chunkQueue
    /\ \A i, j \in 1..Len(enqueuedLog) :
            (i < j /\ ~IsExitError(enqueuedLog[i]) /\ ~IsExitError(enqueuedLog[j]))
                => enqueuedLog[i].line <= enqueuedLog[j].line
    /\ \A i \in 1..Len(enqueuedLog) :
            IsExitError(enqueuedLog[i]) => i = Len(enqueuedLog)

\* C2 witness: one callback enqueued two chunks from two lines; the first has
\* been returned and the second is still queued.
C2_Witness ==
    /\ Len(bridgeOut) = 1 /\ Len(chunkQueue) = 1
    /\ bridgeOut[1].type = "content" /\ chunkQueue[1].type = "done"
    /\ bridgeOut[1].line < chunkQueue[1].line

\* C3: in the retry scenario the consumer never receives an error chunk, and
\* when the sequence has ended it has received exactly content, done.
C3_RetryTransparent ==
    /\ \A i \in 1..Len(delivered) : delivered[i].type # "error"
    /\ pc = "ended" => Types(delivered) = <<"content", "done">>

\* C3 witness: the third attempt ran and the sequence ended.
C3_Witness ==
    /\ pc = "ended" /\ nSpawned = 3 /\ attempt = 2
    /\ Types(delivered) = <<"content", "done">>

\* C4: once the consumer of the Codex decorator has received a content
\* chunk, no step spawns a subprocess, and an error chunk the bridge returns
\* is delivered to the consumer in that same step instead of starting a
\* backoff.
C4_NoRetryAfterContent ==
    [][(backend = "codex" /\ HasContent(delivered)) =>
          /\ nSpawned' = nSpawned
          /\ (Len(bridgeOut') = Len(bridgeOut) + 1
                /\ bridgeOut'[Len(bridgeOut')].type = "error") =>
                  /\ Len(delivered') = Len(delivered) + 1
                  /\ delivered'[Len(delivered')].type = "error"
                  /\ pc' # "backoff"]_vars

\* C4 witness: content then error were delivered while retries remained.
C4_Witness ==
    /\ backend = "codex" /\ attempt < MAX_RETRIES /\ ~Cancelled
    /\ Types(delivered) = <<"content", "error">>

\* C5: for gemini and claude-code, once the abort signal has fired the
\* subprocess has been sent a termination request (unless it had closed),
\* the consumer is not left suspended, and it receives no chunk beyond those
\* it had when the signal fired, whatever exit code the process closes with.
C5_AbortEndsSilently ==
    (backend \in {"gemini", "claude-code"} /\ aborted) =>
        /\ childState[nSpawned] \in {"terminating", "closed"}
        /\ pc # "wait"
        /\ Len(delivered) = deliveredAtAbort

\* C5 witness: the signal fired after one content chunk, the sequence ended
\* with that chunk only, and the killed process closed without exit code 0.
C5_Witness ==
    /\ backend = "claude-code" /\ aborted /\ pc = "ended"
    /\ Types(delivered) = <<"content">>
    /\ childState[nSpawned] = "closed" /\ exitCode \in {"1", "null"}

\* C6 (as claimed): after the abort signal or kill() the consumer of the Codex
\* decorator receives no "CLI exited with code ..." error chunk.
C6_NoExitErrorAfterCancel ==
    (backend = "codex" /\ deliveredAtCancel >= 0) =>
        \A i \in (deliveredAtCancel + 1)..Len(delivered) : ~IsExitError(delivered[i])

----------------------------------------------------------------------------
(* Properties of the session store *)

\* Milliseconds since the stored entry of id was last used.
Age(id) == now - sessions[id].last_used

ResolveTable == [a \in ResolveInputs |-> resolveSessionId(a[1], a[2], a[3])]

Without(D) == [id \in SessionIds |-> IF id \in D THEN NoRow ELSE sessions[id]]

----------------------------------------------------------------------------
(* Properties of the HTTP handler *)

\* The texts of the content chunks of cs, in order.
ContentTexts(cs) ==
    LET cc == SelectSeq(cs, LAMBDA c : c.type = "content")
    IN [i \in 1..Len(cc) |-> cc[i].text]

\* delta.content of the streamed events that carry one, in order.
DeltaContents(ws) ==
    LET ev == SelectSeq(ws, LAMBDA e : e.event = "chunk" /\ e.delta.content # Absent)
    IN [i \in 1..Len(ev) |-> ev[i].delta.content[1]]

RECURSIVE Concat(_)
Concat(ts) == IF ts = <<>> THEN "" ELSE Head(ts) \o Concat(Tail(ts))

HasError(cs) == \E i \in 1..Len(cs) : cs[i].type = "error"

C12_SentinelLast ==
    srvStream =>
        \A i \in 1..Len(resWritten) :
            resWritten[i] = formatSSEDone =>
                /\ i = Len(resWritten)
                /\ i > 1 /\ resWritten[i - 1] = formatSSEChunk("", "stop")

\* C13 (as claimed): a streamed response that consumed an error chunk has,
\* when it is ended, written the inline error event and the sentinel after it.
C13_ErrorThenSentinel ==
    (srvStream /\ srvPc = "ended" /\ HasError(srvConsumed)) =>
        \E i, j \in 1..Len(resWritten) :
            /\ i < j
            /\ resWritten[i] = SSEError("tool")
            /\ resWritten[j] = formatSSEDone

----------------------------------------------------------------------------
(* Properties of a launch *)

\* The names cleanEnv lets through for a backend.
Passed(b) == ALLOWED_KEYS \cup BACKEND_KEYS(b)

\* The environment of a spawned subprocess agrees with the gateway's on the
\* names that pass, does not depend on any other variable of the gateway,
\* and holds no key of another backend.
EnvIsolated ==
    /\ \A k \in Passed(backend) : childEnv[k] = gatewayEnv[k]
    /\ \A e \in GatewayEnvs :
          (\A k \in Passed(backend) : e[k] = gatewayEnv[k])
              => LaunchEnv(backend, e, hasSystemPrompt) = childEnv
    /\ \A b \in Backends \ {backend} :
          \A k \in BACKEND_KEYS(b) \ BACKEND_KEYS(backend) : childEnv[k] = Unset

Tokens(a) == {a[i] : i \in 1..Len(a)}

\* The arguments by which the three tools run every action unattended.
BypassArgs ==
    {"--dangerously-bypass-approvals-and-sandbox", "--yolo",
     "--dangerously-skip-permissions"}

\* The arguments by which an adapter restricts its tool: codex's read-only
\* sandbox and claude's empty tool list. The gemini adapter has none.
RestrictArgs == {"--sandbox", "--tools"}

\* C17: for every adapter, with tools false the argument vector holds the
\* tool's restrictive argument and no approval-bypass argument; with tools
\* true it holds the approval-bypass argument.
C17_ToolGating ==
    nSpawned >= 1 =>
        IF reqTools
        THEN Tokens(argv) \cap BypassArgs # {}
        ELSE /\ Tokens(argv) \cap RestrictArgs # {}
             /\ Tokens(argv) \cap BypassArgs = {}

\* What holds of all three adapters: the approval-bypass argument is passed
\* exactly when tools is true.
BypassIffTools ==
    nSpawned >= 1 => (reqTools <=> Tokens(argv) \cap BypassArgs # {})

\* A request that named a backend that is not active, or lacked model or a
\* non-empty messages array (or was no JSON object at all).
Rejected == srvBody # NoRequest /\ srvBody # ValidBody

\* C15: a request that names a backend that is not active, or that lacks
\* model or a non-empty messages array, is answered with an error response;
\* the backend is not run for it, so no subprocess is spawned and no chunk is
\* consumed, and nothing is written to the session store.
C15_RejectedRequest ==
    Rejected =>
        /\ srvPc = "ended"
        /\ resStatus \in {400, 404, 500}
        /\ resBody = ErrorBody(resStatus, ValidationMessage(srvBody))
        /\ resWritten = <<>>
        /\ ~srvRan
        /\ srvConsumed = <<>>
        /\ sessions = [id \in SessionIds |-> NoRow]
        /\ lastOp = "none"

\* C15 witness: a request for a backend that is not active was answered 404
\* while a chunk sequence with a done was there to be consumed.
C15_Witness ==
    /\ srvBody = [json |-> "object", model |-> "nope/m", messages |-> "one"]
    /\ resStatus = 404
    /\ \E i \in 1..Len(srvChunks) : srvChunks[i].type = "done"

\* C14: when a request is run whose session id had a done consumed less than
\* the TTL ago by an earlier request, isNewConversation = false is passed to
\* the backend.
C14_SessionMemory ==
    [][(/\ srvPc = "idle" /\ srvRan'
        /\ doneAt[srvSession'] >= 0
        /\ now - doneAt[srvSession'] < SESSION_TTL_MS) => ~srvIsNew']_vars

\* C14 witness: a request is being run as a continuation, some time after
\* the done of an earlier request of its session and after a prune.
C14_Witness ==
    /\ srvPc = "loop" /\ srvRan /\ srvConsumed = <<>>
    /\ ~srvIsNew
    /\ doneAt[srvSession] >= 0
    /\ now > doneAt[srvSession]
    /\ lastOp = "prune"

----------------------------------------------------------------------------
(* Properties of the retry decorator *)

\* C21: one run spawns at most MAX_RETRIES + 1 = 3 subprocesses, whatever
\* the subprocesses do.
C21_AtMostThreeSpawns == nSpawned <= MAX_RETRIES + 1 /\ attempt <= MAX_RETRIES

\* C21 witness: the third subprocess of a codex run has been spawned and has
\* failed in its turn.
C21_Witness ==
    /\ backend = "codex" /\ nSpawned = MAX_RETRIES + 1
    /\ exitCode = "1" /\ pc = "ended"

\* A done chunk has been delivered to the consumer.
DoneDelivered == \E i \in 1..Len(delivered) : delivered[i].type = "done"

\* C22: after the decorator has delivered a done chunk it never schedules a
\* retry and never spawns a new attempt.
C22_NoRetryAfterDone ==
    [][DoneDelivered => (attempt' = attempt /\ nSpawned' = nSpawned)]_vars

\* C23: an error chunk the decorator takes from the bridge is either swallowed
\* for a retry, or delivered with its message as it is and the annotation
\* '(after k+1 attempts)' when k >= 1 retries were made, none when no retry
\* was made; after MAX_RETRIES retries it is always delivered, so the error of
\* the third attempt carries '(after 3 attempts)'.
C23_AttemptAnnotation ==
    [][(/\ backend = "codex"
        /\ Len(bridgeOut') = Len(bridgeOut) + 1
        /\ bridgeOut'[Len(bridgeOut')].type = "error")
       => LET c == bridgeOut'[Len(bridgeOut')] IN
          /\ c.attempts = 0
          /\ \/ /\ attempt < MAX_RETRIES
                /\ attempt' = attempt + 1
                /\ delivered' = delivered
             \/ /\ attempt' = attempt
                /\ delivered' = Append(delivered,
                        [c EXCEPT !.attempts = IF attempt >= 1 THEN attempt + 1 ELSE 0])
          /\ (attempt = MAX_RETRIES =>
                delivered' = Append(delivered, [c EXCEPT !.attempts = 3]))]_vars

\* C23 witness: all three attempts failed before any content, and the error of
\* the third was delivered with '(after 3 attempts)'.
C23_Witness ==
    /\ backend = "codex" /\ nSpawned = 3 /\ ~gotContent
    /\ delivered = <<[ErrorChunk(ExitMessage("1"), 0) EXCEPT !.attempts = 3]>>

\* C24: once cancellation has been requested the decorator schedules no retry
\* and spawns no subprocess, and a next() that starts at the top of the retry
\* loop returns end-of-sequence, delivering nothing.
C24_NoRetryAfterCancel ==
    [][(backend = "codex" /\ Cancelled) =>
          /\ attempt' = attempt
          /\ nSpawned' = nSpawned
          /\ (pc = "run" /\ pc' # "run") => (pc' = "ended" /\ delivered' = delivered)]_vars

\* C24 witness: the run was cancelled during the backoff delay of the first
\* retry and has ended with the retry never spawned.
C24_Witness ==
    /\ backend = "codex" /\ Cancelled
    /\ attempt = 1 /\ nSpawned = 1 /\ ~inner
    /\ pc = "ended"

\* C25: at any time at most the subprocess of the current attempt is running
\* without a termination request: every earlier one has exited or has been
\* sent one by the time the next is spawned; and from the moment a
\* cancellation fires no subprocess of the run is left running without one.
C25_OneLiveSubprocess ==
    /\ \A k \in 1..MaxChildren :
          childState[k] = "running" => k = nSpawned
    /\ Cancelled => \A k \in 1..MaxChildren : childState[k] # "running"

\* C25 witness: the abort signal fired during the second attempt while the
\* first subprocess, sent its termination request at the retry, had not yet
\* exited; both have the request.
C25_Witness ==
    /\ backend = "codex" /\ nSpawned = 2 /\ aborted
    /\ childState[1] = "terminating"
    /\ childState[2] = "terminating"

----------------------------------------------------------------------------
(* Liveness of the bridge *)

\* C26: under a consumer that keeps calling next(), the consumer is blocked
\* only on an empty, unfinished buffer with its resolver stored, and the next
\* enqueue or finish wakes it; every chunk enqueued is eventually returned, in
\* its place; and once the bridge is finished and the buffer empty, next()
\* returns end-of-sequence.
C26_BridgeLiveness ==
    /\ [](pc = "wait" => (waitResolve /\ chunkQueue = <<>> /\ ~done))
    /\ [][(pc = "wait" /\ (chunkQueue' # chunkQueue \/ done' # done))
            => (pc' = "woken" /\ ~waitResolve')]_vars
    /\ \A n \in 1..MaxStreamLines :
          (Len(enqueuedLog) >= n)
              ~> (Len(bridgeOut) >= n /\ bridgeOut[n] = enqueuedLog[n])
    /\ (done /\ chunkQueue = <<>>) ~> (pc = "ended")

\* C26 witness: the consumer, woken more than once, has been returned
\* MaxStreamLines chunks and then the end of the sequence.
C26_Witness ==
    /\ pc = "ended" /\ done
    /\ Len(bridgeOut) = MaxStreamLines
    /\ bridgeOut = enqueuedLog

----------------------------------------------------------------------------
(* The remainder of the line buffer at exit *)

\* C27: when the subprocess exits with a non-empty remainder in the line
\* buffer, the exit handler enqueues for it what a complete line of the same
\* text yields, in every adapter, before the exit error if there is one.
C27_RemainderAsLine ==
    [][(exitCode = "none" /\ exitCode' # "none" /\ Trim(lineBuf) # <<>>) =>
          \E err \in {<<>>, <<ErrorChunk(ExitMessage(exitCode'), 0)>>} :
              enqueuedLog' = enqueuedLog
                                \o processLine(backend, Trim(lineBuf), lineNo + 1)
                                \o err]_vars

----------------------------------------------------------------------------
(* Resuming the tool's own conversation *)

\* The argument vector asks the tool to resume: codex `exec resume`, gemini
\* `--resume`.
HasResume(b, a) ==
    IF b = "codex" THEN Len(a) >= 2 /\ a[1] = "exec" /\ a[2] = "resume"
    ELSE \E i \in 1..Len(a) : a[i] = "--resume"

\* The id it is asked to resume: codex passes it before the prompt, after
\* `--`; gemini as the value of `--resume`.
ResumeId(b, a) ==
    IF b = "codex" THEN a[Len(a) - 1]
    ELSE a[(CHOOSE i \in 1..Len(a) : a[i] = "--resume") + 1]

RECURSIVE LastStarted(_, _)
\* The id of the last started event written in the lines, m when there is none.
LastStarted(lines, m) ==
    IF lines = <<>> THEN m
    ELSE LET l == Trim(lines[Len(lines)]) IN
         IF l = JsonLine("s") THEN "native"
         ELSE IF l = JsonLine("t") THEN "native2"
         ELSE LastStarted(SubSeq(lines, 1, Len(lines) - 1), m)

\* The complete lines a data callback finds in the buffer and the
\* characters that arrive.
CompleteLines(buf, data) ==
    LET segs == SplitNL(buf \o data) IN SubSeq(segs, 1, Len(segs) - 1)

\* C28: the first spawn of a codex or gemini turn passes the resume argument
\* iff isNewConversation is false and a native id is cached for the turn's
\* session id, and passes that id; a retry spawns with the turn's arguments;
\* the id cached for a session id is the one of the most recent started /
\* init event its turns have read, from complete lines or from the remainder
\* at exit, and nothing else changes it; a turn with no cached id spawns
\* without the resume argument and without an error chunk.
C28_ResumeIffCached ==
    [][/\ (nSpawned = 0 /\ nSpawned' = 1) =>
            /\ HasResume(backend, argv') <=> (~reqIsNew /\ sessionMapping # "none")
            /\ HasResume(backend, argv') => ResumeId(backend, argv') = sessionMapping
            /\ enqueuedLog' = <<>>
       /\ (nSpawned >= 1 /\ nSpawned' = nSpawned + 1) => argv' = argv
       /\ IF turns' # turns
          THEN /\ reqSessionId' = reqSessionId =>
                    (sessionMapping' = sessionMapping /\ otherMapping' = otherMapping)
               /\ reqSessionId' # reqSessionId =>
                    (sessionMapping' = otherMapping /\ otherMapping' = sessionMapping)
          ELSE /\ otherMapping' = otherMapping
               /\ sessionMapping' =
                    IF exitCode = "none" /\ exitCode' # "none"
                    THEN LastStarted(<<lineBuf>>, sessionMapping)
                    ELSE IF nSpawned' = nSpawned /\ Len(procRest') < Len(procRest)
                    THEN LastStarted(
                            CompleteLines(lineBuf,
                                SubSeq(procRest, 1, Len(procRest) - Len(procRest'))),
                            sessionMapping)
                    ELSE sessionMapping]_vars

\* C28 witness: a third turn resumes the id of a second started event that
\* is cached for its session id, while the other session id has nothing
\* cached.
C28_Witness ==
    /\ turns = 2 /\ nSpawned = 1 /\ ~reqIsNew
    /\ HasResume(backend, argv)
    /\ ResumeId(backend, argv) = "native2"
    /\ otherMapping = "none"

----------------------------------------------------------------------------
(* Writes to the session store *)

\* C29: whatever calls were made before it, a trackSession call leaves the
\* entry of its session id with the creation time it had, or the time of the
\* call when there was no entry, and with the last-used time and the message
\* count of the call; no other entry is touched.
C29_AtomicUpsert ==
    [][lastOp' = "track" =>
          LET id == lastId' IN
          /\ sessions'[id] # NoRow
          /\ sessions'[id].created_at =
                IF sessions[id] = NoRow THEN now ELSE sessions[id].created_at
          /\ sessions'[id].last_used = now
          /\ sessions'[id].msg_count = lastCount'
          /\ \A other \in SessionIds \ {id} : sessions'[other] = sessions[other]]_vars

\* C29 witness: an entry written again after its creation, with another
\* message count, while the other session id has an entry of its own.
C29_Witness ==
    /\ lastOp = "track" /\ lastId = "s1"
    /\ sessions["s1"].created_at < sessions["s1"].last_used
    /\ sessions["s1"].msg_count = 3 /\ lastCount = 3
    /\ sessions["s2"] # NoRow
    /\ sessions["s2"].created_at > sessions["s1"].created_at

\* C30: the backend id stored for a session id never changes while the entry
\* exists, whatever backend id later trackSession calls are given.
C30_OneBackendPerEntry ==
    [][\A id \in SessionIds :
          (sessions[id] # NoRow /\ sessions'[id] # NoRow)
              => sessions'[id].backend_id = sessions[id].backend_id]_vars

----------------------------------------------------------------------------
(* The system-prompt file of gemini *)

\* C31: a gemini run with a system prompt has written the side-channel file
\* and pointed GEMINI_SYSTEM_MD at it in the step that spawns the subprocess,
\* and no such file is left when the sequence has ended, whether the
\* subprocess exited with code 0 or not, reported a failure, or the run was
\* cancelled by the abort signal or by kill().
C31_FileCreatedAndDeleted ==
    /\ [][(backend = "gemini" /\ hasSystemPrompt /\ nSpawned' = nSpawned + 1) =>
            /\ ~fileOnDisk
            /\ fileOnDisk' /\ systemPromptFile'
            /\ childEnv'["GEMINI_SYSTEM_MD"] = SYSTEM_MD_FILE
            /\ childState'[nSpawned'] = "running"]_vars
    /\ [](backend = "gemini" =>
            /\ (nSpawned = 0 \/ ~hasSystemPrompt) => ~fileOnDisk
            /\ systemPromptFile => fileOnDisk
            /\ done => ~fileOnDisk
            /\ pc = "ended" => (~fileOnDisk /\ ~systemPromptFile))

\* C31 witness: the subprocess of a run with a system prompt reported a
\* failure and exited with code 1 after kill() had been called; the
\* sequence has ended.
C31_Witness ==
    /\ backend = "gemini" /\ hasSystemPrompt
    /\ pc = "ended" /\ killed /\ ~aborted /\ exitCode = "1"
    /\ Types(delivered) = <<"error">>
    /\ ~fileOnDisk

----------------------------------------------------------------------------
(* The streamed response *)

\* A role-announcement event: delta {role: "assistant"}, finish_reason null.
IsRoleEvent(w) ==
    /\ w.event = "chunk"
    /\ w.delta.role = Present("assistant")
    /\ w.delta.content = Absent
    /\ w.finish_reason = "null"

\* C32: a streaming response has the role-announcement event as the first
\* thing written and nowhere else, whatever the chunk sequence is, the empty
\* one included; what has been written is never taken back, and a response
\* that is not streamed writes no event.
C32_RoleFirstOnce ==
    /\ [](IF srvStream
          THEN /\ resWritten # <<>>
               /\ IsRoleEvent(resWritten[1])
               /\ \A i \in 2..Len(resWritten) : ~IsRoleEvent(resWritten[i])
          ELSE resWritten = <<>>)
    /\ [][/\ Len(resWritten') >= Len(resWritten)
          /\ SubSeq(resWritten', 1, Len(resWritten)) = resWritten]_vars

\* C32 witness: a streaming response to an empty chunk sequence has ended
\* with the role event as the only thing written.
C32_Witness ==
    /\ srvStream /\ srvPc = "ended" /\ srvConsumed = <<>>
    /\ Len(resWritten) = 1 /\ IsRoleEvent(resWritten[1])

----------------------------------------------------------------------------
(* The response that is not streamed *)

\* C33: when the non-streaming loop consumes an error chunk, no response has
\* been sent yet and that step sends status 500 with the chunk's error
\* message, leaves the accumulator alone and ends the handler; a response
\* once sent is never replaced and no chunk is consumed after it; so a
\* request that consumed an error chunk is answered with the error payload
\* and no completion object, the error being the last chunk it consumed.
C33_ErrorAbortsCollect ==
    /\ [][(/\ srvPc = "loop" /\ ~srvStream
            /\ Len(srvConsumed') = Len(srvConsumed) + 1
            /\ srvConsumed'[Len(srvConsumed')].type = "error")
          => /\ resStatus = 0 /\ resBody = NoBody
             /\ resStatus' = 500
             /\ resBody' = [error |-> [message |-> srvConsumed'[Len(srvConsumed')].error,
                                       code |-> 500]]
             /\ fullContent' = fullContent
             /\ srvPc' = "ended"]_vars
    /\ [][(~srvStream /\ resStatus # 0)
          => (resStatus' = resStatus /\ resBody' = resBody
                /\ srvConsumed' = srvConsumed)]_vars
    /\ []((srvRan /\ ~srvStream /\ HasError(srvConsumed)) =>
            /\ resStatus = 500
            /\ DOMAIN resBody = {"error"}
            /\ \A i \in 1..Len(srvConsumed) :
                  srvConsumed[i].type = "error" <=> i = Len(srvConsumed))

\* C33 witness: content, then an error, with a done still to come: the
\* request was answered 500 with the text accumulated so far discarded and
\* the done never consumed.
C33_Witness ==
    /\ srvRan /\ ~srvStream /\ srvPc = "ended"
    /\ Types(srvConsumed) = <<"content", "error">>
    /\ Types(srvChunks) = <<"done">>
    /\ fullContent # ""
    /\ resStatus = 500

\* C34 (as claimed): a request that is not streamed is answered with status
\* 200 and a completion object only if it consumed a done chunk.
C34_CompletionOnlyAfterDone ==
    (srvRan /\ ~srvStream /\ resStatus = 200) =>
        \E i \in 1..Len(srvConsumed) : srvConsumed[i].type = "done"

----------------------------------------------------------------------------
(* A subprocess that cannot be started *)

\* C35 (as claimed): when a subprocess could not be started, no exception
\* leaves the adapter, and a sequence that has ended without cancellation
\* has delivered an error chunk as its last chunk.
C35_SpawnFailureYieldsError ==
    (\E k \in 1..MaxChildren : childState[k] = "failed") =>
        /\ pc # "crashed"
        /\ (pc = "ended" /\ ~Cancelled) =>
              (delivered # <<>> /\ delivered[Len(delivered)].type = "error")

----------------------------------------------------------------------------
(* The handler's writes to the session store *)

----------------------------------------------------------------------------
(* Gemini requests in flight at the same time *)

\* C37 (as claimed): a gemini request that is running and has not yet cleaned
\* up its system-prompt file finds its own system prompt in that file,
\* whatever other requests are in flight.
C37_OwnPromptUntilEnd ==
    \A r \in Requests :
        (inflight[r].phase = "running" /\ inflight[r].systemPromptFile # "null")
            => tmpFiles[inflight[r].systemPromptFile] = inflight[r].systemPrompt

----------------------------------------------------------------------------
(* Independence of the data callbacks' boundaries *)

\* What the adapter enqueues when the whole stream arrives in one data
\* callback and the subprocess then exits with code 0.
WholeChunks(b, str) ==
    LET cleaned == IF b = "claude-code" THEN stripAnsi(str) ELSE str
        segs == SplitNL(cleaned)
        lines == SubSeq(segs, 1, Len(segs) - 1)
        rest == Trim(segs[Len(segs)])
    IN ChunksOfLines(b, lines, 0)
         \o (IF rest # <<>> THEN processRemainder(b, rest, Len(lines) + 1) ELSE <<>>)

\* C38 (as claimed): once the subprocess has exited, the chunks enqueued are
\* those the stream yields when it arrives in one piece, wherever the data
\* callbacks cut it.
C38_SplitInvariant ==
    exitCode = "0" => enqueuedLog = WholeChunks(backend, stdoutAtStart)

\* The same for the adapters that read a pipe.
SplitInvariantPipes ==
    backend # "claude-code" => C38_SplitInvariant

----------------------------------------------------------------------------
(* Derived session ids *)

\* The system prompt as the seed takes it: none is the empty text.
PromptText(p) == IF p = undefined THEN <<>> ELSE p

\* C39 (as claimed): two calls of resolveSessionId without an explicit id, one
\* right after the other, return the same id only if they were given the
\* same system prompt and first user contents with the same text.
C39_DerivedIdInjective ==
    [][(/\ lastOp = "resolve" /\ lastOp' = "resolve"
        /\ resolveArgs[1] \in {undefined, <<>>}
        /\ resolveArgs'[1] \in {undefined, <<>>}
        /\ resolveResult' = resolveResult)
       => /\ PromptText(resolveArgs'[2]) = PromptText(resolveArgs[2])
          /\ extractContentText(resolveArgs'[3]) = extractContentText(resolveArgs[3])]_vars

----------------------------------------------------------------------------
(* The waiter slot of the bridge *)

\* C40: the waiter slot holds a resolver exactly while the consumer is
\* suspended in next(), and then the buffer is empty and the bridge not
\* finished; a step that enqueues or finishes while it is set clears it and
\* resumes the consumer; the slot is cleared by nothing else and the consumer
\* is resumed by nothing else, so a suspension is resumed once; a resumed
\* consumer finds a chunk or the end, and the slot empty.
C40_WaiterInvariant ==
    /\ [](waitResolve <=> pc = "wait")
    /\ [](waitResolve => (chunkQueue = <<>> /\ ~done))
    /\ [](pc = "woken" => (~waitResolve /\ (chunkQueue # <<>> \/ done)))
    /\ [][(waitResolve /\ (chunkQueue' # chunkQueue \/ done' # done))
            => (~waitResolve' /\ pc' = "woken")]_vars
    /\ [][(waitResolve /\ ~waitResolve') => (pc = "wait" /\ pc' = "woken")]_vars
    /\ [][(pc # "woken" /\ pc' = "woken") => (waitResolve /\ ~waitResolve')]_vars

\* C40 witness: the consumer, returned one chunk after its first suspension,
\* suspended again and has been resumed by the enqueue of a second chunk.
C40_Witness ==
    /\ pc = "woken" /\ ~waitResolve /\ ~done
    /\ Len(bridgeOut) = 1 /\ Len(chunkQueue) = 1

============================================================================
